---- MODULE Spec2Model ----
(***************************************************************************)
(* Self-healing reserve agent: the monitor callback of agent/index.ts, the *)
(* strategy selection and the two settlement strategies of                 *)
(* agent/recovery.ts and agent/darkpool.ts, the wallet action executor of  *)
(* agent/wallet.ts and the metrics collector of agent/metrics.ts; the     *)
(* ReserveAttestation and CREDarkPool contracts; the dashboard server of   *)
(* dashboard/server.ts with its health monitor and service management.     *)
(*                                                                         *)
(* The specifications share the definitions:                               *)
(*   Spec         the agent: notifications, attempts, metrics, reporting   *)
(*   SpecRecovery one call of executeRecovery(config, deficitAmount)       *)
(*   SpecWallet   the wallet actions and the direct strategy               *)
(*   SpecMetrics  the metrics collector over a long series of attempts     *)
(*   SpecMonitor  the polling loop of startMonitor and process shutdown    *)
(*   SpecAttestation  transactions sent to ReserveAttestation              *)
(*   SpecDarkPool     transactions sent to CREDarkPool                      *)
(*   SpecDashboard    agent reports, simulations, reset and status reads    *)
(*   SpecAgentWatch   the agent-down watch loop of the dashboard            *)
(*   SpecHealth       the health checks of HealthMonitor                    *)
(*   SpecServices     start-services, stop-services and process exits       *)
(***************************************************************************)
EXTENDS Integers, Sequences, FiniteSets, TLC

VARIABLES
    config,        \* AgentConfig: dryRun, reportingEnabled
    now,           \* Date.now()
    recovering,    \* the flag of main()
    metrics,       \* MetricsCollector.metrics
    handlers,      \* invocations of the status callback suspended at an await
    posts,         \* bodies handed to fetch(), in call order
    delivered,     \* notifications passed to the callback, by kind and flag
    strategyRuns,  \* number of executeRecovery calls made by the callback
    settled,       \* calls of the callback completed: resolved / rejected
    reportErrors,  \* console.error calls made by reportToDashboard
    attemptLog,    \* per recorded attempt: the duration the callback measured
                   \* and logs, and the durationMs of the recovery it forwards
    unanswered,    \* a solvency-false notification was delivered, and since
                   \* then no attempt started and no solvency-true arrived
    call,          \* one executeRecovery call (SpecRecovery, SpecWallet)
    walletLog,     \* wallet actions called directly, with their results
                   \* (SpecWallet)
    collector,     \* a MetricsCollector over a long series of attempts, and
                   \* every failure recorded in it (SpecMetrics)
    mon,           \* the agent process seen from startMonitor: the chain, the
                   \* polling loop, the handler calls, signals (SpecMonitor)
    attestation,   \* the ReserveAttestation contract, the block timestamp and
                   \* the transactions sent to it (SpecAttestation)
    pool,          \* the CREDarkPool contract, the block timestamp, the last
                   \* transaction and the token transfers made (SpecDarkPool)
    dash,          \* the dashboard server: its module-level state and its
                   \* pending timers (SpecDashboard, SpecAgentWatch)
    health,        \* the HealthMonitor of the dashboard, its checks in flight
                   \* and their results in the order of completion
                   \* (SpecHealth)
    services       \* the service processes the dashboard spawned and its
                   \* start-services requests (SpecServices)

vars == <<config, now, recovering, metrics, handlers, posts, delivered,
          strategyRuns, settled, reportErrors, attemptLog, unanswered, call,
          walletLog,
          collector, mon, attestation, pool, dash, health,
          services>>

agentVars == <<recovering, metrics, handlers, posts, delivered,
               strategyRuns, settled, reportErrors, attemptLog, unanswered>>

contractVars == <<attestation, pool>>

dashboardVars == <<dash, health, services>>

driverVars == <<walletLog, collector, mon, contractVars, dashboardVars>>

----------------------------------------------------------------------------
(* Bounds *)

MaxTime == 1

MaxNotifications == 3

MaxAttempts == 2

MaxStepMs == 1

(* Program constants *)

MaxErrors == 100

----------------------------------------------------------------------------
(* Optional fields: data, error, durationMs and context may be undefined *)

NoData == [present |-> FALSE, fields |-> {}, command |-> <<>>]

NoError == [present |-> FALSE, msg |-> ""]

NoDuration == -1

NoContext == [present |-> FALSE, steps |-> <<>>]

----------------------------------------------------------------------------
(* agent/wallet.ts *)

\* What execSync + JSON.parse can do: return parsed output, or throw because
\* of a non-zero exit, the 30 s timeout, or output that is not JSON.
ExecOutcomes == {"ok", "exit", "timeout", "parse"}

\* Variant: JSON.parse is called outside the try block, so output that does
\* not parse throws out of runAwal
runAwal_ParseEscapes(args, dryRun, outcome) ==
    IF dryRun
    THEN [success |-> TRUE,
          data |-> [present |-> TRUE, fields |-> {"dryRun", "command"},
                    command |-> <<"npx awal@latest", args, "--json">>],
          error |-> NoError, executed |-> FALSE, threw |-> FALSE]
    ELSE IF outcome = "ok"
    THEN [success |-> TRUE,
          data |-> [present |-> TRUE, fields |-> {"output"}, command |-> <<>>],
          error |-> NoError, executed |-> TRUE, threw |-> FALSE]
    ELSE [success |-> FALSE, data |-> NoData,
          error |-> IF outcome = "parse" THEN NoError
                    ELSE [present |-> TRUE, msg |-> outcome],
          executed |-> TRUE, threw |-> outcome = "parse"]

\* Variant: the dryRun flag is not consulted
runAwal_IgnoresDryRun(args, dryRun, outcome) ==
    IF outcome = "ok"
    THEN [success |-> TRUE,
          data |-> [present |-> TRUE, fields |-> {"output"}, command |-> <<>>],
          error |-> NoError, executed |-> TRUE, threw |-> FALSE]
    ELSE [success |-> FALSE, data |-> NoData,
          error |-> [present |-> TRUE, msg |-> outcome],
          executed |-> TRUE, threw |-> FALSE]

\* runAwal returns on every path: threw is false in each result. executed
\* says whether execSync was called.
runAwal(args, dryRun, outcome) ==
    LET cmd == <<"npx awal@latest", args, "--json">>
    IN  IF dryRun
        THEN [success |-> TRUE,
              data |-> [present |-> TRUE, fields |-> {"dryRun", "command"},
                        command |-> cmd],
              error |-> NoError,
              executed |-> FALSE,
              threw |-> FALSE]
        ELSE IF outcome = "ok"
        THEN [success |-> TRUE,
              data |-> [present |-> TRUE, fields |-> {"output"}, command |-> <<>>],
              error |-> NoError,
              executed |-> TRUE,
              threw |-> FALSE]
        ELSE [success |-> FALSE,
              data |-> NoData,
              error |-> [present |-> TRUE, msg |-> outcome],
              executed |-> TRUE,
              threw |-> FALSE]

checkBalance(dryRun, outcome) == runAwal("balance", dryRun, outcome)

tradeEthToUsdc(dryRun, outcome) == runAwal("trade 0.01 eth usdc", dryRun, outcome)

sendUsdc(dryRun, outcome) == runAwal("send 10 reserve", dryRun, outcome)

walletStatus(dryRun, outcome) == runAwal("status", dryRun, outcome)

----------------------------------------------------------------------------
(* agent/metrics.ts *)

NewMetrics(t) ==
    [totalRecoveries |-> 0, successfulRecoveries |-> 0, failedRecoveries |-> 0,
     totalResponseTimeMs |-> 0, errors |-> <<>>, startTime |-> t]

\* Variant: the start of an attempt is counted twice
recordRecoveryStart_Twice(m) ==
    [m EXCEPT !.totalRecoveries = @ + 2]

\* Variant: the start of an attempt is not counted
recordRecoveryStart_NotCounted(m) == m

recordRecoveryStart(m) ==
    [m EXCEPT !.totalRecoveries = @ + 1]

\* Variant: a success is counted and its duration is not added
recordRecoverySuccess_NoDuration(m, durationMs) ==
    [m EXCEPT !.successfulRecoveries = @ + 1]

recordRecoverySuccess(m, durationMs) ==
    [m EXCEPT !.successfulRecoveries = @ + 1,
              !.totalResponseTimeMs = @ + durationMs]

\* Variant: slice(0, n), the first n entries
SliceLast_FromStart(s, n) ==
    IF Len(s) > n THEN SubSeq(s, 1, n) ELSE s

\* errors.slice(-n)
SliceLast(s, n) ==
    IF Len(s) > n THEN SubSeq(s, Len(s) - n + 1, Len(s)) ELSE s

\* Variant: a full log drops the failure just pushed and keeps the oldest
recordRecoveryFailure_EvictsNewest(m, step, error, durationMs, context, t) ==
    LET pushed == Append(m.errors, [timestamp |-> t, step |-> step,
                                    error |-> error, context |-> context])
    IN  [m EXCEPT !.failedRecoveries = @ + 1,
                  !.totalResponseTimeMs = @ + durationMs,
                  !.errors = IF Len(pushed) > MaxErrors
                             THEN SubSeq(pushed, 1, MaxErrors)
                             ELSE pushed]

\* Variant: the log is never truncated
recordRecoveryFailure_KeepsAll(m, step, error, durationMs, context, t) ==
    [m EXCEPT !.failedRecoveries = @ + 1,
              !.totalResponseTimeMs = @ + durationMs,
              !.errors = Append(@, [timestamp |-> t, step |-> step,
                                    error |-> error, context |-> context])]

recordRecoveryFailure(m, step, error, durationMs, context, t) ==
    LET pushed == Append(m.errors, [timestamp |-> t, step |-> step,
                                    error |-> error, context |-> context])
    IN  [m EXCEPT !.failedRecoveries = @ + 1,
                  !.totalResponseTimeMs = @ + durationMs,
                  !.errors = IF Len(pushed) > MaxErrors
                             THEN SliceLast(pushed, MaxErrors)
                             ELSE pushed]

\* successRate and avgResponseTimeMs are JavaScript numbers (quotients); they
\* are kept as numerator and denominator.
getMetrics(m, t) ==
    [totalRecoveries |-> m.totalRecoveries,
     successfulRecoveries |-> m.successfulRecoveries,
     failedRecoveries |-> m.failedRecoveries,
     successRate |-> IF m.totalRecoveries > 0
                     THEN [num |-> m.successfulRecoveries * 100,
                           den |-> m.totalRecoveries]
                     ELSE [num |-> 0, den |-> 1],
     avgResponseTimeMs |-> IF m.totalRecoveries > 0
                           THEN [num |-> m.totalResponseTimeMs,
                                 den |-> m.totalRecoveries]
                           ELSE [num |-> 0, den |-> 1],
     uptimeSeconds |-> (t - m.startTime) \div 1000,
     errorCount |-> Len(m.errors),
     recentErrors |-> SliceLast(m.errors, 10)]

\* Variant: recentErrors is taken with splice(-10), which removes the
\* entries from the log
AfterGetMetrics_Splices(m) ==
    [m EXCEPT !.errors = IF Len(@) > 10 THEN SubSeq(@, 1, Len(@) - 10)
                                        ELSE <<>>]

\* this.metrics after a getMetrics call: the method only reads it
AfterGetMetrics(m) == m

\* no summary returned yet
NoSummary == getMetrics(NewMetrics(0), 0)

----------------------------------------------------------------------------
(* agent/recovery.ts: the direct strategy *)

okStep(kind, start, dur, data) ==
    [step |-> kind, success |-> TRUE, timestamp |-> start, durationMs |-> dur,
     data |-> data, error |-> NoError]

\* Variant: a failed wallet call is recorded as a successful step
failStep_MarkedOk(kind, start, dur, error) ==
    [step |-> kind, success |-> TRUE, timestamp |-> start, durationMs |-> dur,
     data |-> NoData, error |-> error]

failStep(kind, start, dur, error) ==
    [step |-> kind, success |-> FALSE, timestamp |-> start, durationMs |-> dur,
     data |-> NoData, error |-> error]

\* how many of the wallet calls made ran the external tool
Executions(results) ==
    Cardinality({i \in 1..Len(results) : results[i].executed})

\* The three wallet calls are synchronous (execSync), so the whole strategy
\* runs inside the call; outs[i] is what the external tool does on the i-th
\* call and durs[i] how long it takes. Returns the RecoveryResult, the time
\* at which it returns, the wallet actions invoked, in order, and how many
\* of them ran the external tool.
DirectRecovery(cfg, t0, outs, durs) ==
    LET startTime == t0
        step1Start == t0
        balance == checkBalance(cfg.dryRun, outs[1])
        t1 == step1Start + durs[1]
        step2Start == t1
        trade == tradeEthToUsdc(cfg.dryRun, outs[2])
        t2 == step2Start + durs[2]
        step3Start == t2
        send == sendUsdc(cfg.dryRun, outs[3])
        t3 == step3Start + durs[3]
        s1 == okStep("checkBalance", step1Start, durs[1], balance.data)
        s2 == okStep("trade", step2Start, durs[2], trade.data)
        s3 == okStep("send", step3Start, durs[3], send.data)
    IN  IF ~balance.success
        THEN [result |-> [success |-> FALSE,
                          steps |-> <<failStep("checkBalance", step1Start,
                                               durs[1], balance.error)>>,
                          durationMs |-> t1 - startTime],
              endTime |-> t1,
              invoked |-> <<"balance">>,
              toolRuns |-> Executions(<<balance>>)]
        ELSE IF ~trade.success
        THEN [result |-> [success |-> FALSE,
                          steps |-> <<s1, failStep("trade", step2Start,
                                                   durs[2], trade.error)>>,
                          durationMs |-> t2 - startTime],
              endTime |-> t2,
              invoked |-> <<"balance", "trade">>,
              toolRuns |-> Executions(<<balance, trade>>)]
        ELSE IF ~send.success
        THEN [result |-> [success |-> FALSE,
                          steps |-> <<s1, s2, failStep("send", step3Start,
                                                       durs[3], send.error)>>,
                          durationMs |-> t3 - startTime],
              endTime |-> t3,
              invoked |-> <<"balance", "trade", "send">>,
              toolRuns |-> Executions(<<balance, trade, send>>)]
        ELSE [result |-> [success |-> TRUE,
                          steps |-> <<s1, s2, s3>>,
                          durationMs |-> t3 - startTime],
              endTime |-> t3,
              invoked |-> <<"balance", "trade", "send">>,
              toolRuns |-> Executions(<<balance, trade, send>>)]

----------------------------------------------------------------------------
(* agent/recovery.ts: strategy selection *)

\* deficitAmount is an optional string; a string is the sequence of its
\* characters.
NoDeficit == [present |-> FALSE, text |-> <<>>]

Deficit(text) == [present |-> TRUE, text |-> text]

Digits == {"0", "1", "2", "3", "4", "5", "6", "7", "8", "9"}

DigitVal ==
    ("0" :> 0) @@ ("1" :> 1) @@ ("2" :> 2) @@ ("3" :> 3) @@ ("4" :> 4) @@
    ("5" :> 5) @@ ("6" :> 6) @@ ("7" :> 7) @@ ("8" :> 8) @@ ("9" :> 9)

RECURSIVE Pow10(_)
Pow10(n) == IF n <= 0 THEN 1 ELSE 10 * Pow10(n - 1)

Min(a, b) == IF a < b THEN a ELSE b

\* the index after the run of digits of s that starts at i
RECURSIVE DigitsEnd(_, _)
DigitsEnd(s, i) ==
    IF i <= Len(s) /\ s[i] \in Digits THEN DigitsEnd(s, i + 1) ELSE i

\* the digits s[i..j-1] read as a decimal numeral, continuing from acc
RECURSIVE ReadDigits(_, _, _, _)
ReadDigits(s, i, j, acc) ==
    IF i >= j THEN acc ELSE ReadDigits(s, i + 1, j, 10 * acc + DigitVal[s[i]])

NaN == [nan |-> TRUE, neg |-> FALSE, mant |-> 0, scale |-> 0]

\* parseFloat: the longest prefix of s that is a decimal literal
\* ([sign] digits [. digits] [e [sign] digits]), NaN if there is none.
\* The value is (neg ? -1 : 1) * mant * 10^scale.
parseFloat(s) ==
    LET n == Len(s)
        neg == n >= 1 /\ s[1] = "-"
        i0 == IF n >= 1 /\ s[1] \in {"+", "-"} THEN 2 ELSE 1
        intEnd == DigitsEnd(s, i0)
        hasDot == intEnd <= n /\ s[intEnd] = "."
        fracEnd == IF hasDot THEN DigitsEnd(s, intEnd + 1) ELSE intEnd
        nInt == intEnd - i0
        nFrac == IF hasDot THEN fracEnd - (intEnd + 1) ELSE 0
        hasExpMark == fracEnd <= n /\ s[fracEnd] \in {"e", "E"}
        signAt == fracEnd + 1
        hasExpSign == hasExpMark /\ signAt <= n /\ s[signAt] \in {"+", "-"}
        expStart == IF hasExpSign THEN signAt + 1 ELSE signAt
        expEnd == IF hasExpMark THEN DigitsEnd(s, expStart) ELSE expStart
        hasExp == hasExpMark /\ expEnd > expStart
        expVal == IF hasExp THEN ReadDigits(s, expStart, expEnd, 0) ELSE 0
        exp == IF hasExpSign /\ s[signAt] = "-" THEN 0 - expVal ELSE expVal
        mant == ReadDigits(s, intEnd + 1, fracEnd,
                           ReadDigits(s, i0, intEnd, 0))
    IN  IF nInt + nFrac = 0
        THEN NaN
        ELSE [nan |-> FALSE, neg |-> neg, mant |-> mant, scale |-> exp - nFrac]

DarkPoolThreshold == 10000

\* Variant: the comparison is >= instead of >
GreaterThan_OrEqual(p, t) ==
    /\ ~p.nan
    /\ ~p.neg
    /\ IF p.scale >= 0
       THEN p.mant * Pow10(Min(p.scale, 5)) >= t
       ELSE (0 - p.scale) <= 5 /\ p.mant >= t * Pow10(0 - p.scale)

\* p > t for a parsed number p and an integer 0 < t <= 10000; the powers of
\* ten are capped where the comparison is already decided.
GreaterThan(p, t) ==
    /\ ~p.nan
    /\ ~p.neg
    /\ p.mant > 0
    /\ IF p.scale >= 0
       THEN p.mant > t \div Pow10(Min(p.scale, 9))
       ELSE (0 - p.scale) <= 5 /\ p.mant > t * Pow10(0 - p.scale)

\* deficitAmount && parseFloat(deficitAmount) > 10000
useDarkPool(deficit) ==
    /\ deficit.present
    /\ Len(deficit.text) > 0
    /\ GreaterThan(parseFloat(deficit.text), DarkPoolThreshold)

----------------------------------------------------------------------------
(* agent/darkpool.ts: the confidential strategy *)

EncryptDelayMs == 500

SubmitDelayMs == 800

MatchDelayMs == 2000

SettleDelayMs == 600

\* Buffer.from(c).toString('hex') for the characters deficits are made of
HexOf ==
    ("0" :> "30") @@ ("1" :> "31") @@ ("2" :> "32") @@ ("3" :> "33") @@
    ("4" :> "34") @@ ("5" :> "35") @@ ("6" :> "36") @@ ("7" :> "37") @@
    ("8" :> "38") @@ ("9" :> "39") @@ ("." :> "2e") @@ ("e" :> "65") @@
    ("-" :> "2d")

\* '0xCCC_THRESHOLD_' + hex(amount) + random digits
simulateCCCThresholdEncryption(amount) ==
    <<"0xCCC_THRESHOLD_">> \o [i \in 1..Len(amount) |-> HexOf[amount[i]]]
        \o <<"random">>

\* encryptedRequest.slice(0, 20) + '...': the 16 characters of the prefix and
\* the first 4 hexadecimal digits
EncryptedPayload(encryptedRequest) ==
    SubSeq(encryptedRequest, 1, Min(3, Len(encryptedRequest))) \o <<"...">>

dpOkStep(kind, start, t, fields, text) ==
    [step |-> kind, success |-> TRUE, timestamp |-> start,
     durationMs |-> t - start,
     data |-> [present |-> TRUE, fields |-> fields, command |-> text],
     error |-> NoError]

\* the step pushed by a catch block: no durationMs, no data
dpFailStep(kind, start, message) ==
    [step |-> kind, success |-> FALSE, timestamp |-> start,
     durationMs |-> NoDuration, data |-> NoData,
     error |-> [present |-> TRUE, msg |-> message]]

DarkPoolResult(success, steps, startTime, t) ==
    [success |-> success, mechanism |-> "darkpool", steps |-> steps,
     durationMs |-> t - startTime, confidential |-> TRUE]

\* executeRecovery maps the dark pool result to the RecoveryResult format
MapStep(s) ==
    [step |-> s.step, success |-> s.success, timestamp |-> s.timestamp,
     durationMs |-> s.durationMs,
     data |-> [present |-> TRUE,
               fields |-> s.data.fields \cup {"mechanism", "confidential"},
               command |-> s.data.command],
     error |-> s.error]

MapDarkPoolResult(r) ==
    [success |-> r.success,
     steps |-> [i \in 1..Len(r.steps) |-> MapStep(r.steps[i])],
     durationMs |-> r.durationMs]

----------------------------------------------------------------------------
(* One call executeRecovery(config, deficitAmount) *)

IdleCall ==
    [pc |-> "idle", deficit |-> NoDeficit, startTime |-> 0, stepStart |-> 0,
     steps |-> <<>>, invoked |-> <<>>, toolRuns |-> 0,
     result |-> [success |-> FALSE, steps |-> <<>>, durationMs |-> 0]]

\* The call up to its first await: the whole direct strategy, or the dark
\* pool strategy up to the call of simulateCCCThresholdEncryption.
CallExecuteRecovery(deficit, outs, durs) ==
    /\ call.pc = "idle"
    /\ IF useDarkPool(deficit)
       THEN /\ call' = [call EXCEPT !.pc = "encrypt", !.deficit = deficit,
                                    !.startTime = now, !.stepStart = now,
                                    !.invoked = <<[fn |-> "encrypt",
                                                   arg |-> deficit.text]>>]
            /\ now' = now
       ELSE LET run == DirectRecovery(config, now, outs, durs)
            IN  /\ call' = [call EXCEPT !.pc = "done", !.deficit = deficit,
                                        !.startTime = now,
                                        !.invoked = [i \in 1..Len(run.invoked) |->
                                                      [fn |-> run.invoked[i],
                                                       arg |-> <<>>]],
                                        !.toolRuns = run.toolRuns,
                                        !.steps = run.result.steps,
                                        !.result = run.result]
                /\ now' = run.endTime
    /\ UNCHANGED <<config, agentVars, driverVars>>

\* Variant: a failing step is followed by a record for the step that was
\* skipped
DarkPoolFails_Skipped(kind, message) ==
    LET steps == call.steps \o
                   <<dpFailStep(kind, call.stepStart, message),
                     dpFailStep("settle", now', "skipped")>>
    IN  call' = [call EXCEPT
                   !.pc = "done", !.steps = steps,
                   !.result = MapDarkPoolResult(
                                DarkPoolResult(FALSE, steps, call.startTime,
                                               now'))]

\* Variant: a failing step is recorded and the strategy goes on with the
\* next simulated call
DarkPoolFails_Continues(kind, message) ==
    LET steps == Append(call.steps, dpFailStep(kind, call.stepStart, message))
    IN  IF kind = "settle"
        THEN call' = [call EXCEPT
                        !.pc = "done", !.steps = steps,
                        !.result = MapDarkPoolResult(
                                     DarkPoolResult(FALSE, steps,
                                                    call.startTime, now'))]
        ELSE call' = [call EXCEPT
                        !.pc = CASE kind = "encryptRequest" -> "submit"
                                 [] kind = "submitToPool" -> "match"
                                 [] OTHER -> "settle",
                        !.steps = steps,
                        !.stepStart = now',
                        !.invoked = Append(@,
                            [fn |-> CASE kind = "encryptRequest" -> "submit"
                                      [] kind = "submitToPool" -> "match"
                                      [] OTHER -> "settle",
                             arg |-> <<>>])]

\* A dark pool step failed: the strategy returns and executeRecovery maps
DarkPoolFails(kind, message) ==
    LET steps == Append(call.steps, dpFailStep(kind, call.stepStart, message))
    IN  call' = [call EXCEPT
                   !.pc = "done", !.steps = steps,
                   !.result = MapDarkPoolResult(
                                DarkPoolResult(FALSE, steps, call.startTime,
                                               now'))]

\* simulateCCCThresholdEncryption settles (lines 74-97), then step 2 starts
EncryptSettles(ok, jitter) ==
    /\ call.pc = "encrypt"
    /\ now' = now + EncryptDelayMs + jitter
    /\ IF ok
       THEN call' = [call EXCEPT
              !.pc = "submit",
              !.steps = Append(@, dpOkStep("encryptRequest", call.stepStart, now',
                          {"encryptedPayload", "encryption", "vaultDON"},
                          EncryptedPayload(
                            simulateCCCThresholdEncryption(call.deficit.text)))),
              !.stepStart = now',
              !.invoked = Append(@, [fn |-> "submit", arg |-> call.deficit.text])]
       ELSE DarkPoolFails("encryptRequest", "CCC threshold encryption failed")
    /\ UNCHANGED <<config, agentVars, driverVars>>

\* simulateDarkPoolSubmit settles (lines 105-129), then step 3 starts
SubmitSettles(ok, jitter) ==
    /\ call.pc = "submit"
    /\ now' = now + SubmitDelayMs + jitter
    /\ IF ok
       THEN call' = [call EXCEPT
              !.pc = "match",
              !.steps = Append(@, dpOkStep("submitToPool", call.stepStart, now',
                          {"requestId", "poolAddress", "premium", "timeout"},
                          <<"req_">>)),
              !.stepStart = now',
              !.invoked = Append(@, [fn |-> "match", arg |-> <<"req_">>])]
       ELSE DarkPoolFails("submitToPool", "Dark pool submission failed")
    /\ UNCHANGED <<config, agentVars, driverVars>>

\* simulateCCCEnclaveMatch settles (lines 139-165), then step 4 starts
MatchSettles(ok, jitter) ==
    /\ call.pc = "match"
    /\ now' = now + MatchDelayMs + jitter
    /\ IF ok
       THEN call' = [call EXCEPT
              !.pc = "settle",
              !.steps = Append(@, dpOkStep("monitorFill", call.stepStart, now',
                          {"filled", "cccAttestation", "matchedMakers",
                           "settlement"},
                          <<"0xCCC_ATTESTATION_", "...">>)),
              !.stepStart = now',
              !.invoked = Append(@, [fn |-> "settle", arg |-> <<"req_">>])]
       ELSE DarkPoolFails("monitorFill", "CCC enclave matching failed")
    /\ UNCHANGED <<config, agentVars, driverVars>>

\* simulateCCCSettlement settles (lines 178-215) and the strategy returns
SettleSettles(ok, jitter) ==
    /\ call.pc = "settle"
    /\ now' = now + SettleDelayMs + jitter
    /\ IF ok
       THEN LET steps == Append(call.steps,
                           dpOkStep("settle", call.stepStart, now',
                             {"settled", "balanceHash", "cccAttestation",
                              "txHash", "onChainData"},
                             <<"0xBALANCE_HASH_", "...">>))
            IN  call' = [call EXCEPT
                   !.pc = "done", !.steps = steps,
                   !.result = MapDarkPoolResult(
                                DarkPoolResult(TRUE, steps, call.startTime,
                                               now'))]
       ELSE DarkPoolFails("settle", "CCC settlement failed")
    /\ UNCHANGED <<config, agentVars, driverVars>>

----------------------------------------------------------------------------
(* agent/index.ts: the status callback passed to startMonitor *)

NoResult == [success |-> FALSE, steps |-> <<>>, durationMs |-> 0]

RemoveAt(s, i) == SubSeq(s, 1, i - 1) \o SubSeq(s, i + 1, Len(s))

TotalDelivered ==
    delivered.trueIdle + delivered.trueBusy
        + delivered.falseIdle + delivered.falseBusy

\* result.steps.find(s => !s.success): index of the first failed step, 0 if none
FindFailed(steps) ==
    IF \E i \in 1..Len(steps) : ~steps[i].success
    THEN CHOOSE i \in 1..Len(steps) :
            /\ ~steps[i].success
            /\ \A j \in 1..(i - 1) : steps[j].success
    ELSE 0

\* Variant: the name of the failed step is not looked up
FailedStepName_Unknown(steps) == "unknown"

\* failedStep?.step || 'unknown'
FailedStepName(steps) ==
    IF FindFailed(steps) = 0 THEN "unknown" ELSE steps[FindFailed(steps)].step

\* failedStep?.error || 'Unknown error'
FailedStepError(steps) ==
    IF /\ FindFailed(steps) # 0
       /\ steps[FindFailed(steps)].error.present
       /\ steps[FindFailed(steps)].error.msg # ""
    THEN steps[FindFailed(steps)].error.msg
    ELSE "Unknown error"

\* Variants of the guard: without the recovering flag, without the status,
\* and without either.
StartsAttempt_Unguarded(isSolvent, flag) == ~isSolvent

StartsAttempt_AnyStatus(isSolvent, flag) == ~flag

StartsAttempt_Always(isSolvent, flag) == TRUE

\* The guard of the callback: a recovery attempt starts
StartsAttempt(isSolvent, flag) == ~isSolvent /\ ~flag

\* reportToDashboard up to its await: is fetch called
ReportCallsFetch(cfg) == cfg.reportingEnabled

\* Variants: reportToDashboard without its try/catch, and one that throws on
\* a response that is not ok.
ReportCompletion_Rethrows(outcome) ==
    IF outcome = "neterr" THEN "threw" ELSE "returned"

ReportCompletion_ThrowsNotOk(outcome) ==
    IF outcome = "non2xx" THEN "threw" ELSE "returned"

\* Variant: reportToDashboard throws after every fetch
ReportCompletion_ThrowsAlways(outcome) == "threw"

\* reportToDashboard after fetch settled: a non-2xx response and a rejected
\* fetch are logged with console.error; the function returns in every case.
ReportCompletion(outcome) == "returned"

ReportLogs(outcome) == IF outcome = "ok" THEN 0 ELSE 1

FetchOutcomes == {"ok", "non2xx", "neterr"}

\* Variant: the flag is not reset
FinallyFlag_Kept(flag) == flag

\* The value of recovering after the finally block
FinallyFlag(flag) == FALSE

\* The recovery forwarded to the dashboard by the catch block
ExceptionReport(durationMs) ==
    [success |-> FALSE, steps |-> <<>>, durationMs |-> durationMs]

\* One call of the callback, up to its first await (or to its end when no
\* attempt starts). executeRecovery(config) is called without a deficit, so
\* the direct strategy runs, synchronously; threw says that an unexpected
\* error escapes it instead.
OnStatus(isSolvent, outs, durs, threw) ==
    /\ TotalDelivered < MaxNotifications
    /\ delivered' =
         IF isSolvent
         THEN IF recovering THEN [delivered EXCEPT !.trueBusy = @ + 1]
                            ELSE [delivered EXCEPT !.trueIdle = @ + 1]
         ELSE IF recovering THEN [delivered EXCEPT !.falseBusy = @ + 1]
                            ELSE [delivered EXCEPT !.falseIdle = @ + 1]
    /\ IF StartsAttempt(isSolvent, recovering)
       THEN LET run == DirectRecovery(config, now, outs, durs)
                ret == IF threw
                       THEN [threw |-> TRUE, result |-> NoResult,
                             message |-> "unexpected"]
                       ELSE [threw |-> FALSE, result |-> run.result,
                             message |-> ""]
            IN  /\ strategyRuns < MaxAttempts
                /\ threw \/ run.endTime <= MaxTime
                /\ recovering' = TRUE
                /\ metrics' = recordRecoveryStart(metrics)
                /\ strategyRuns' = strategyRuns + 1
                /\ now' = IF threw THEN now ELSE run.endTime
                /\ handlers' = Append(handlers,
                                 [pc |-> "awaitRecovery", startTime |-> now,
                                  ret |-> ret, fetching |-> FALSE,
                                  calls |-> <<"recordRecoveryStart",
                                              "executeRecovery">>])
                /\ UNCHANGED settled
       ELSE /\ settled' = [settled EXCEPT !.resolved = @ + 1]
            /\ UNCHANGED <<recovering, metrics, strategyRuns, now, handlers>>
    /\ unanswered' = (~isSolvent /\ ~StartsAttempt(isSolvent, recovering))
    /\ UNCHANGED <<config, posts, reportErrors, attemptLog, call, driverVars>>

\* The body of the try block after executeRecovery returned (lines 61-79), or
\* of the catch block when it threw (lines 81-88), up to the await of
\* reportToDashboard.
RunReport(h, m, recorded, durationMs, recovery, nextPc) ==
    /\ metrics' = m
    /\ attemptLog' = Append(attemptLog, [measured |-> durationMs,
                                         forwarded |-> recovery.durationMs])
    /\ posts' = IF ReportCallsFetch(config)
                THEN Append(posts, [timestamp |-> now,
                                    metrics |-> getMetrics(m, now),
                                    recovery |-> recovery])
                ELSE posts
    /\ handlers' = [handlers EXCEPT ![h] =
                      [@ EXCEPT !.pc = nextPc,
                                !.fetching = ReportCallsFetch(config),
                                !.calls = Append(@, recorded)]]

CatchBlock(h, message) ==
    LET durationMs == now - handlers[h].startTime
        m == recordRecoveryFailure(metrics, "exception", message, durationMs,
                                   NoContext, now)
    IN  RunReport(h, m, "recordRecoveryFailure", durationMs,
                  ExceptionReport(durationMs), "awaitReportCatch")

ResumeRecovery(h) ==
    /\ h \in 1..Len(handlers)
    /\ handlers[h].pc = "awaitRecovery"
    /\ LET ret == handlers[h].ret
           result == ret.result
           durationMs == now - handlers[h].startTime
       IN  IF ret.threw
           THEN CatchBlock(h, ret.message)
           ELSE RunReport(h,
                    IF result.success
                    THEN recordRecoverySuccess(metrics, durationMs)
                    ELSE recordRecoveryFailure(metrics,
                             FailedStepName(result.steps),
                             FailedStepError(result.steps), durationMs,
                             [present |-> TRUE, steps |-> result.steps], now),
                    IF result.success THEN "recordRecoverySuccess"
                                      ELSE "recordRecoveryFailure",
                    durationMs, result, "awaitReport")
    /\ UNCHANGED <<config, now, recovering, delivered, strategyRuns, settled,
                   reportErrors, unanswered, call, driverVars>>

\* The callback after reportToDashboard completed: the finally block, or the
\* catch block when the report was awaited in the try block and threw.
AfterReport(h, completion) ==
    IF completion = "threw" /\ handlers[h].pc = "awaitReport"
    THEN /\ CatchBlock(h, "report")
         /\ UNCHANGED <<recovering, settled>>
    ELSE /\ recovering' = FinallyFlag(recovering)
         /\ handlers' = RemoveAt(handlers, h)
         /\ settled' = IF completion = "threw"
                       THEN [settled EXCEPT !.rejected = @ + 1]
                       ELSE [settled EXCEPT !.resolved = @ + 1]
         /\ UNCHANGED <<metrics, posts, attemptLog>>

\* fetch settles: a 2xx response, another response, or a network error
FetchSettles(h, outcome) ==
    /\ h \in 1..Len(handlers)
    /\ handlers[h].pc \in {"awaitReport", "awaitReportCatch"}
    /\ handlers[h].fetching
    /\ AfterReport(h, ReportCompletion(outcome))
    /\ reportErrors' = reportErrors + ReportLogs(outcome)
    /\ UNCHANGED <<config, now, delivered, strategyRuns, unanswered, call,
                   driverVars>>

\* reporting is disabled: reportToDashboard returned without calling fetch
ReportSkipped(h) ==
    /\ h \in 1..Len(handlers)
    /\ handlers[h].pc \in {"awaitReport", "awaitReportCatch"}
    /\ ~handlers[h].fetching
    /\ AfterReport(h, "returned")
    /\ UNCHANGED <<config, now, delivered, strategyRuns, reportErrors,
                   unanswered, call, driverVars>>

Tick ==
    /\ now < MaxTime
    /\ now' = now + 1
    /\ UNCHANGED <<config, agentVars, call, driverVars>>

\* startMonitor returned: poll() ran up to its first await, the call of
\* getBlockNumber, with lastBlock = 0n
InitMonitor ==
    [chain |-> <<>>, pc |-> "getBlockNumber", stopped |-> FALSE,
     lastBlock |-> 0, currentBlock |-> 0, logs |-> <<>>, next |-> 1,
     step |-> 0, recovering |-> FALSE, suspended |-> FALSE,
     signal |-> FALSE, signalInStep |-> FALSE, exited |-> FALSE,
     dispatched |-> <<>>, ranges |-> <<>>]

\* ReserveAttestation: the deployer, the other accounts that can send
\* transactions, and the contract right after its constructor ran
Deployer == "deployer"

Accounts == {Deployer, "keeper", "stranger"}

\* dashboard/server.ts right after the module was loaded: no override, no
\* pending timer, empty logs, the agent watch asleep until its first check.
\* null is a record with set = FALSE, or the time 0. requests numbers the
\* simulation requests, an override and a timer carry the number of the
\* request that made them, served counts the request steps taken, alerts are
\* the AGENT_DOWN alerts sent since the latest report with metrics.
NoOverride ==
    [set |-> FALSE, isSolvent |-> TRUE, expiresAt |-> 0, request |-> 0,
     origin |-> "none"]

WatchInterval == 30000

InitDashboard ==
    [now |-> 1000, ticks |-> 0, served |-> 0, requests |-> 0,
     overrideReserves |-> NoOverride, overrideAttestation |-> NoOverride,
     events |-> <<>>, agentMetrics |-> [reported |-> FALSE, total |-> 0,
                                        successful |-> 0, failed |-> 0],
     recoveryHistory |-> <<>>, timers |-> {},
     lastAgentReportTime |-> 0, agentLastReport |-> 0,
     agentDownAlertSent |-> FALSE,
     watch |-> [pc |-> "sleep", dueAt |-> 1000 + WatchInterval],
     alerts |-> <<>>]

\* CREDarkPool after its deployment and after the admin granted the two
\* roles the fill and settlement functions ask for: no request, no fill, no
\* used ticket, an empty balance table; transfers are the token transfers
\* made and issued the requests a withdrawal ticket was issued for
InitPool ==
    [requests |-> <<>>, fills |-> <<>>, usedTickets |-> {},
     settlementResults |-> <<>>,
     balanceTable |-> [balanceHash |-> "0x0", lastUpdated |-> 0,
                       version |-> 0],
     roles |-> [TEE_VERIFIER_ROLE |-> {"tee"},
                CCC_ENCLAVE_ROLE |-> {"enclave"}],
     timestamp |-> 1, blocks |-> 0, transfers |-> <<>>, issued |-> {}]

\* HealthMonitor after its constructor
NeverChecked == [healthy |-> FALSE, lastCheck |-> 0, error |-> FALSE]

InitHealth ==
    [status |-> [api |-> NeverChecked, blockchain |-> NeverChecked,
                 agent |-> NeverChecked],
     failureCounts |-> [api |-> 0, blockchain |-> 0, agent |-> 0],
     started |-> 0,
     inFlight |-> [api |-> 0, blockchain |-> 0],
     results |-> [api |-> <<>>, blockchain |-> <<>>]]

\* the service management of the dashboard: no child process, no request.
\* serviceProcs maps a name to the number of a process in procs, 0 for no
\* entry; requests holds one record per start-services request.
ServiceNames == {"hardhat", "mock-api", "agent"}

InitServices ==
    [servicesStarting |-> FALSE,
     serviceProcs |-> [name \in ServiceNames |-> 0],
     procs |-> <<>>,
     requests |-> <<>>]

InitAttestation ==
    [owner |-> Deployer, isSolvent |-> TRUE, lastUpdated |-> 0,
     events |-> <<>>, timestamp |-> 1, txs |-> <<>>]

Init ==
    /\ config \in [dryRun : BOOLEAN, reportingEnabled : BOOLEAN]
    /\ now = 0
    /\ recovering = FALSE
    /\ metrics = NewMetrics(0)
    /\ handlers = <<>>
    /\ posts = <<>>
    /\ delivered = [trueIdle |-> 0, trueBusy |-> 0, falseIdle |-> 0,
                    falseBusy |-> 0]
    /\ strategyRuns = 0
    /\ settled = [resolved |-> 0, rejected |-> 0]
    /\ reportErrors = 0
    /\ attemptLog = <<>>
    /\ unanswered = FALSE
    /\ call = IdleCall
    /\ walletLog = <<>>
    /\ collector = [metrics |-> NewMetrics(0), failures |-> <<>>, reads |-> 0,
                    summary |-> NoSummary]
    /\ mon = InitMonitor
    /\ attestation = InitAttestation
    /\ pool = InitPool
    /\ dash = InitDashboard
    /\ health = InitHealth
    /\ services = InitServices

\* What the external tool can do during one attempt: the calls after the
\* first failing one are not made, so their outcome and duration are fixed.
Scenarios(dryRun) ==
    {outs \in [1..3 -> ExecOutcomes] :
        /\ dryRun => \A i \in 1..3 : outs[i] = "ok"
        /\ \A i \in 1..3 : outs[i] # "ok" => \A j \in (i + 1)..3 : outs[j] = "ok"}

Durations(outs, threw) ==
    {durs \in [1..3 -> 0..MaxStepMs] :
        \A j \in 1..3 :
            (threw \/ \E i \in 1..(j - 1) : outs[i] # "ok") => durs[j] = 0}

AllOk == [i \in 1..3 |-> "ok"]

NoTime == [i \in 1..3 |-> 0]

Notify ==
    \E isSolvent \in BOOLEAN :
        IF StartsAttempt(isSolvent, recovering)
        THEN \E threw \in BOOLEAN :
               \E outs \in Scenarios(config.dryRun \/ threw) :
                 \E durs \in Durations(outs, threw) :
                    OnStatus(isSolvent, outs, durs, threw)
        ELSE OnStatus(isSolvent, AllOk, NoTime, FALSE)

Resume == \E h \in 1..Len(handlers) : ResumeRecovery(h)

Fetched == \E h \in 1..Len(handlers), o \in FetchOutcomes : FetchSettles(h, o)

Skipped == \E h \in 1..Len(handlers) : ReportSkipped(h)

Next == Notify \/ Resume \/ Fetched \/ Skipped \/ Tick

Spec == Init /\ [][Next]_vars

\* The event loop runs every continuation that is ready, and fetch settles
\* every request (with a response or with an error).
SpecFair ==
    /\ Spec
    /\ WF_vars(Resume)
    /\ WF_vars(Fetched)
    /\ WF_vars(Skipped)

----------------------------------------------------------------------------
(* SpecRecovery: executeRecovery applied to every deficit of DeficitInputs *)

MaxLen == 4

DeficitChars == {"0", "1", ".", "e", "-"}

RECURSIVE StringsUpTo(_)
StringsUpTo(n) ==
    IF n = 0 THEN {<<>>}
    ELSE LET shorter == StringsUpTo(n - 1)
         IN  shorter \cup {Append(t, c) : t \in shorter, c \in DeficitChars}

SampleDeficits ==
    {<<"0">>, <<"5", "0", "0", "0">>, <<"1", "0", "0", "0", "0">>,
     <<"1", "0", "0", "0", "1">>, <<"1", "0", "0", "0", "0", ".", "5">>,
     <<"1", "0", "0", "0", "0", ".", "0">>,
     <<"9", "9", "9", "9", ".", "9", "9">>, <<"5", "0", "0", "0", "0">>,
     <<"5", "0", "0", "0", "0", "0", "0", "0">>,
     <<"7", "5", "0", "0", "0", "0", "0", "0">>}

DeficitInputs ==
    {NoDeficit} \cup {Deficit(t) : t \in StringsUpTo(MaxLen) \cup SampleDeficits}

Call ==
    /\ call.pc = "idle"
    /\ \E deficit \in DeficitInputs :
        IF useDarkPool(deficit)
        THEN CallExecuteRecovery(deficit, AllOk, NoTime)
        ELSE \E outs \in Scenarios(config.dryRun) :
               \E durs \in Durations(outs, FALSE) :
                  CallExecuteRecovery(deficit, outs, durs)

Encrypted == \E ok \in BOOLEAN, jitter \in 0..MaxStepMs : EncryptSettles(ok, jitter)

Submitted == \E ok \in BOOLEAN, jitter \in 0..MaxStepMs : SubmitSettles(ok, jitter)

Matched == \E ok \in BOOLEAN, jitter \in 0..MaxStepMs : MatchSettles(ok, jitter)

Settled == \E ok \in BOOLEAN, jitter \in 0..MaxStepMs : SettleSettles(ok, jitter)

NextRecovery == Call \/ Encrypted \/ Submitted \/ Matched \/ Settled

SpecRecovery == Init /\ [][NextRecovery]_vars

----------------------------------------------------------------------------
(* Properties of the agent (Spec, SpecFair) *)

ReportPcs == {"awaitReport", "awaitReportCatch"}

\* C1: at most one attempt (and so at most one strategy execution) is in
\* flight at any time, and a solvency-false notification delivered while
\* recovering is true starts no strategy, produces no result or report and
\* leaves every field of the metrics unchanged.
C1_Exclusivity ==
    /\ [](Len(handlers) <= 1)
    /\ [][delivered'.falseBusy # delivered.falseBusy =>
            /\ strategyRuns' = strategyRuns
            /\ handlers' = handlers
            /\ posts' = posts
            /\ metrics' = metrics
            /\ recovering' = recovering]_vars

\* a notification was dropped while an attempt was in flight, and it still is
C1_Witness ==
    /\ delivered.falseBusy > 0
    /\ Len(handlers) = 1
    /\ recovering

\* C2: a solvency-true notification, delivered while Idle or while
\* Recovering, invokes no strategy and leaves the recovering flag, the
\* counters and the error log unchanged.
C2_SolventNoOp ==
    [][(delivered'.trueIdle # delivered.trueIdle
          \/ delivered'.trueBusy # delivered.trueBusy) =>
            /\ strategyRuns' = strategyRuns
            /\ handlers' = handlers
            /\ recovering' = recovering
            /\ metrics' = metrics
            /\ posts' = posts]_vars

\* solvency-true notifications arrived in both states
C2_Witness ==
    /\ delivered.trueIdle > 0
    /\ delivered.trueBusy > 0

\* C4: the attempts started are exactly the solvency-false notifications
\* delivered while Idle: a dropped notification is not replayed and a failed
\* attempt is not retried, so an attempt only ever starts in the step that
\* delivers such a notification.
C4_NoReplay ==
    /\ [](strategyRuns = delivered.falseIdle)
    /\ [](metrics.totalRecoveries = delivered.falseIdle)
    /\ [][strategyRuns' # strategyRuns =>
            /\ ~recovering
            /\ delivered'.falseIdle = delivered.falseIdle + 1]_vars

\* a notification was dropped, the attempt failed and is over, and nothing
\* was started since
C4_Witness ==
    /\ delivered.falseBusy > 0
    /\ handlers = <<>>
    /\ ~recovering
    /\ strategyRuns = 1
    /\ metrics.failedRecoveries = 1

C6_ReportDecoupled ==
    \A h \in 1..Len(handlers) :
        (handlers[h].pc \in ReportPcs /\ handlers[h].fetching) => ~recovering

\* C7: a report that fails is not raised to the callback and not retried,
\* and the step in which fetch settles changes neither the metrics nor what
\* was posted; with reporting disabled fetch is never called.
C7_ReportFailureSwallowed ==
    /\ [](settled.rejected = 0)
    /\ [](Len(posts) <= strategyRuns)
    /\ [](~config.reportingEnabled => posts = <<>> /\ reportErrors = 0)
    /\ [][\A h \in 1..Len(handlers) :
            (handlers[h].pc \in ReportPcs /\ handlers' # handlers) =>
                /\ metrics' = metrics
                /\ posts' = posts
                /\ handlers' = RemoveAt(handlers, h)]_vars

\* a report failed, and the attempt it belongs to is over
C7_Witness ==
    /\ reportErrors > 0
    /\ handlers = <<>>
    /\ Len(posts) = strategyRuns
    /\ metrics.totalRecoveries = 1

\* C8 (as claimed): when the strategy threw, exactly one failure with step
\* 'exception' is recorded and the recovery posted to the dashboard has
\* success = false and exactly one step, of kind exception.
C8_ExceptionReport ==
    \A h \in 1..Len(handlers) :
        (handlers[h].pc = "awaitReportCatch" /\ handlers[h].fetching) =>
            /\ Len(metrics.errors) > 0
            /\ metrics.errors[Len(metrics.errors)].step = "exception"
            /\ posts # <<>>
            /\ ~posts[Len(posts)].recovery.success
            /\ Len(posts[Len(posts)].recovery.steps) = 1
            /\ posts[Len(posts)].recovery.steps[1].step = "exception"

\* C9: every call of the callback completes without throwing or rejecting,
\* whatever the strategy and the report delivery did.
C9_CallbackNeverRejects ==
    /\ settled.rejected = 0
    /\ settled.resolved + Len(handlers) = TotalDelivered

\* the strategy threw, the report of it failed, and the callback completed
C9_Witness ==
    /\ handlers = <<>>
    /\ reportErrors > 0
    /\ metrics.failedRecoveries = 1
    /\ metrics.errors[1].step = "exception"
    /\ settled.resolved = TotalDelivered

----------------------------------------------------------------------------
(* Properties of executeRecovery (SpecRecovery) *)

DirectSteps == <<"checkBalance", "trade", "send">>

ConfidentialSteps == <<"encryptRequest", "submitToPool", "monitorFill", "settle">>

RanDirect ==
    /\ call.invoked # <<>>
    /\ \A i \in 1..Len(call.invoked) :
          call.invoked[i].fn \in {"balance", "trade", "send"}

RanConfidential ==
    /\ call.invoked # <<>>
    /\ \A i \in 1..Len(call.invoked) :
          call.invoked[i].fn \in {"encrypt", "submit", "match", "settle"}

\* A deficit written as a plain decimal numeral: digits, optionally followed
\* by a point and digits.
IsPlainDecimal(t) ==
    /\ Len(t) >= 1
    /\ \A i \in 1..Len(t) : t[i] \in Digits \cup {"."}
    /\ Cardinality({i \in 1..Len(t) : t[i] = "."}) <= 1
    /\ t[1] \in Digits
    /\ t[Len(t)] \in Digits

PointAt(t) ==
    IF \E i \in 1..Len(t) : t[i] = "."
    THEN CHOOSE i \in 1..Len(t) : t[i] = "."
    ELSE Len(t) + 1

RECURSIVE PlaceSum(_, _, _)
PlaceSum(t, i, point) ==
    IF i >= point THEN 0
    ELSE DigitVal[t[i]] * Pow10(point - 1 - i) + PlaceSum(t, i + 1, point)

\* the number written by t exceeds the integer limit
PlainExceeds(t, limit) ==
    LET whole == PlaceSum(t, 1, PointAt(t))
    IN  \/ whole > limit
        \/ /\ whole = limit
           /\ \E i \in (PointAt(t) + 1)..Len(t) : t[i] # "0"

IsPrefix(s, t) ==
    /\ Len(s) <= Len(t)
    /\ \A i \in 1..Len(s) : s[i] = t[i]

StepKinds(steps) == [i \in 1..Len(steps) |-> steps[i].step]

FullSteps == IF RanDirect THEN DirectSteps ELSE ConfidentialSteps

FailedPrefix(steps) ==
    /\ steps # <<>>
    /\ IsPrefix(StepKinds(steps), FullSteps)
    /\ ~steps[Len(steps)].success
    /\ \A i \in 1..(Len(steps) - 1) : steps[i].success

\* C10 (as claimed): the steps of a failed result are a non-empty strict
\* prefix of the strategy's step list, the last step failed and every
\* earlier step succeeded.
C10_StrictPrefix ==
    (call.pc = "done" /\ ~call.result.success) =>
        /\ FailedPrefix(call.result.steps)
        /\ Len(call.result.steps) < Len(FullSteps)

\* C10 (amended): the steps of a failed result are a non-empty prefix of the
\* strategy's step list, which is the whole list exactly when the last step
\* of the strategy is the one that failed; the last recorded step failed and
\* every earlier step succeeded.
C10_FailedPrefix ==
    (call.pc = "done" /\ ~call.result.success) =>
        /\ FailedPrefix(call.result.steps)
        /\ Len(call.result.steps) = Len(call.invoked)

\* the confidential strategy failed at its third step
C10_Witness ==
    /\ call.pc = "done"
    /\ ~call.result.success
    /\ RanConfidential
    /\ Len(call.result.steps) = 3
    /\ call.result.steps[3].step = "monitorFill"

----------------------------------------------------------------------------
(* C11, C12: what a strategy returns and which actions it invokes *)

AllSucceeded(steps) == \A i \in 1..Len(steps) : steps[i].success

\* C11: a result has success = true exactly when every step in steps
\* succeeded; a successful result has the strategy's whole step list, in
\* order; steps is never empty.
C11_SuccessIffAllSteps ==
    call.pc = "done" =>
        /\ call.result.success <=> AllSucceeded(call.result.steps)
        /\ call.result.success => StepKinds(call.result.steps) = FullSteps
        /\ call.result.steps # <<>>

\* the direct strategy returned after its second wallet call failed
C11_Witness ==
    /\ call.pc = "done"
    /\ RanDirect
    /\ ~call.result.success
    /\ Len(call.result.steps) = 2
    /\ call.result.steps[1].success

DirectActions == <<"balance", "trade", "send">>

ConfidentialActions == <<"encrypt", "submit", "match", "settle">>

InvokedFns == [i \in 1..Len(call.invoked) |-> call.invoked[i].fn]

\* C12: the actions a strategy invokes are a prefix of its action list (in
\* order, each at most once), and no action is invoked once a step failed.
C12_InOrderStopOnFailure ==
    call.pc # "idle" =>
        /\ IsPrefix(InvokedFns,
                    IF RanDirect THEN DirectActions ELSE ConfidentialActions)
        /\ \A i \in 1..Len(call.steps) :
              ~call.steps[i].success => Len(call.invoked) = i
        /\ Len(call.steps) <= Len(call.invoked)

\* the confidential strategy stopped at its second call, which failed
C12_Witness ==
    /\ call.pc = "done"
    /\ RanConfidential
    /\ Len(call.invoked) = 2
    /\ Len(call.steps) = 2
    /\ ~call.steps[2].success

----------------------------------------------------------------------------
(* C13, C14: the record shape executeRecovery returns *)

\* C13: every result returned by executeRecovery carries a mechanism field
\* naming the strategy that produced it and a confidential flag that is true
\* exactly when the confidential strategy ran.
C13_MechanismPreserved ==
    call.pc = "done" =>
        /\ "mechanism" \in DOMAIN call.result
        /\ call.result.mechanism = (IF RanDirect THEN "direct" ELSE "darkpool")
        /\ "confidential" \in DOMAIN call.result
        /\ call.result.confidential = RanConfidential

\* C14: in every step of every result returned by executeRecovery, data is
\* present exactly when the step succeeded and error exactly when it failed.
C14_ExactlyOneOfDataError ==
    call.pc = "done" =>
        \A i \in 1..Len(call.result.steps) :
            LET s == call.result.steps[i]
            IN  /\ s.data.present <=> s.success
                /\ s.error.present <=> ~s.success

----------------------------------------------------------------------------
(* C15: metrics conservation over completed attempts *)

RECURSIVE SumSeq(_)
SumSeq(s) == IF s = <<>> THEN 0 ELSE Head(s) + SumSeq(Tail(s))

MeasuredDurations == [i \in 1..Len(attemptLog) |-> attemptLog[i].measured]

ForwardedDurations == [i \in 1..Len(attemptLog) |-> attemptLog[i].forwarded]

\* the N attempts started so far have all completed
CountsConserved ==
    /\ metrics.totalRecoveries = strategyRuns
    /\ metrics.successfulRecoveries + metrics.failedRecoveries = strategyRuns
    /\ Len(attemptLog) = strategyRuns

\* C15 (as claimed): once N attempts have completed, totalRecoveries = N,
\* successfulRecoveries + failedRecoveries = N and totalResponseTimeMs is the
\* sum of the durationMs of the results forwarded for the N attempts.
C15_SumOfForwarded ==
    handlers = <<>> =>
        /\ CountsConserved
        /\ metrics.totalResponseTimeMs = SumSeq(ForwardedDurations)

\* C15 (amended): once N attempts have completed, totalRecoveries = N,
\* successfulRecoveries + failedRecoveries = N and totalResponseTimeMs is the
\* sum of the durations the callback measured for the N attempts, each of
\* which is at least the durationMs of the result forwarded for the attempt.
C15_SumOfMeasured ==
    handlers = <<>> =>
        /\ CountsConserved
        /\ metrics.totalResponseTimeMs = SumSeq(MeasuredDurations)
        /\ \A i \in 1..Len(attemptLog) :
              attemptLog[i].measured >= attemptLog[i].forwarded

\* two attempts completed, a success and a failure, and for one of them the
\* callback measured more than the strategy reported
C15_Witness ==
    /\ handlers = <<>>
    /\ strategyRuns = 2
    /\ metrics.successfulRecoveries = 1
    /\ metrics.failedRecoveries = 1
    /\ \E i \in 1..Len(attemptLog) :
          attemptLog[i].measured > attemptLog[i].forwarded

----------------------------------------------------------------------------
(* C16: the three counters *)

\* callbacks that called recordRecoveryStart and have not yet recorded the
\* outcome of their attempt
OutcomePending ==
    {h \in 1..Len(handlers) : handlers[h].pc = "awaitRecovery"}

\* C16 (as claimed): after every update of the collector,
\* totalRecoveries = successfulRecoveries + failedRecoveries.
C16_TotalIsSum ==
    metrics.totalRecoveries =
        metrics.successfulRecoveries + metrics.failedRecoveries

\* C16 (amended): totalRecoveries = successfulRecoveries + failedRecoveries
\* whenever no attempt is between its recordRecoveryStart and the recording
\* of its outcome; while one is, totalRecoveries is larger by exactly 1.
C16_TotalIsSumPlusPending ==
    /\ Cardinality(OutcomePending) <= 1
    /\ metrics.totalRecoveries =
          metrics.successfulRecoveries + metrics.failedRecoveries
            + Cardinality(OutcomePending)

\* a second attempt has started, after a first one succeeded, and its
\* outcome is not recorded yet
C16_Witness ==
    /\ OutcomePending # {}
    /\ metrics.successfulRecoveries = 1
    /\ metrics.totalRecoveries = 2

----------------------------------------------------------------------------
(* C18: the collector calls of one attempt *)

\* the calls a suspended callback has made, against where it is suspended
CallTraceOk(h) ==
    LET c == handlers[h].calls
        ret == handlers[h].ret
    IN  IF handlers[h].pc = "awaitRecovery"
        THEN c = <<"recordRecoveryStart", "executeRecovery">>
        ELSE /\ Len(c) = 3
             /\ SubSeq(c, 1, 2) = <<"recordRecoveryStart", "executeRecovery">>
             /\ c[3] = IF ~ret.threw /\ ret.result.success
                       THEN "recordRecoverySuccess"
                       ELSE "recordRecoveryFailure"

\* the collector calls made by one step: the step that calls executeRecovery
\* calls recordRecoveryStart and nothing else, a notification that starts no
\* attempt calls nothing
CollectorCallsOfStep ==
    /\ strategyRuns' # strategyRuns =>
          /\ metrics' = [metrics EXCEPT !.totalRecoveries = @ + 1]
          /\ attemptLog' = attemptLog
    /\ (delivered' # delivered /\ strategyRuns' = strategyRuns) =>
          /\ metrics' = metrics
          /\ attemptLog' = attemptLog

\* C18: an attempt calls recordRecoveryStart exactly once, before the
\* strategy is called, and exactly one of recordRecoverySuccess and
\* recordRecoveryFailure once the strategy has finished; a notification that
\* starts no attempt makes no call of the collector.
C18_OneStartOneOutcome ==
    /\ [](/\ \A h \in 1..Len(handlers) : CallTraceOk(h)
          /\ metrics.totalRecoveries = strategyRuns
          /\ Len(attemptLog) = strategyRuns - Cardinality(OutcomePending)
          /\ metrics.successfulRecoveries + metrics.failedRecoveries
                = Len(attemptLog))
    /\ [][CollectorCallsOfStep]_vars

\* the failure of an attempt is recorded and its report is awaited; a
\* notification arrived meanwhile and started nothing
C18_Witness ==
    /\ delivered.falseBusy + delivered.trueBusy >= 1
    /\ \E h \in 1..Len(handlers) :
          /\ handlers[h].pc = "awaitReport"
          /\ handlers[h].calls[3] = "recordRecoveryFailure"

----------------------------------------------------------------------------
(* SpecWallet: the wallet actions called one by one, and the direct strategy *)
(* run once, whatever the external tool would do                            *)

MaxCalls == 2

WalletActions == {"balance", "trade", "send", "status"}

WalletAction(name, dryRun, outcome) ==
    CASE name = "balance" -> checkBalance(dryRun, outcome)
      [] name = "trade" -> tradeEthToUsdc(dryRun, outcome)
      [] name = "send" -> sendUsdc(dryRun, outcome)
      [] OTHER -> walletStatus(dryRun, outcome)

WalletCall(name, outcome) ==
    /\ Len(walletLog) < MaxCalls
    /\ walletLog' = Append(walletLog,
                       [action |-> name, outcome |-> outcome,
                        result |-> WalletAction(name, config.dryRun, outcome)])
    /\ UNCHANGED <<config, now, agentVars, call, collector, mon, contractVars,
                   dashboardVars>>

CallWallet == \E name \in WalletActions, outcome \in ExecOutcomes :
                 WalletCall(name, outcome)

\* executeRecovery(config): no deficit, so the direct strategy
CallDirect ==
    /\ call.pc = "idle"
    /\ \E outs \in Scenarios(FALSE) :
         \E durs \in Durations(outs, FALSE) :
            CallExecuteRecovery(NoDeficit, outs, durs)

NextWallet == CallWallet \/ CallDirect

SpecWallet == Init /\ [][NextWallet]_vars

----------------------------------------------------------------------------
(* C19, C20: the wallet action executor *)

\* C19: without dry-run, a run of the external tool that fails (non-zero
\* exit, timeout, output that does not parse) gives success = false with an
\* error string and no data, a run that exits normally with parseable output
\* gives success = true with the parsed data and no error, and the action
\* never throws.
C19_FailuresBecomeResults ==
    ~config.dryRun =>
        \A i \in 1..Len(walletLog) :
            LET r == walletLog[i].result
            IN  /\ ~r.threw
                /\ walletLog[i].outcome = "ok" =>
                      /\ r.success
                      /\ r.data.present
                      /\ "output" \in r.data.fields
                      /\ ~r.error.present
                /\ walletLog[i].outcome # "ok" =>
                      /\ ~r.success
                      /\ r.error.present
                      /\ r.error.msg # ""
                      /\ ~r.data.present

\* without dry-run, one action hit the timeout and another printed output
\* that does not parse
C19_Witness ==
    /\ ~config.dryRun
    /\ \E i, j \in 1..Len(walletLog) :
          /\ walletLog[i].outcome = "timeout"
          /\ walletLog[j].outcome = "parse"
          /\ ~walletLog[j].result.success

\* the command line of each action
CommandOf(name) ==
    <<"npx awal@latest",
      CASE name = "balance" -> "balance"
        [] name = "trade" -> "trade 0.01 eth usdc"
        [] name = "send" -> "send 10 reserve"
        [] OTHER -> "status",
      "--json">>

IsDryRunData(data) ==
    /\ data.present
    /\ "dryRun" \in data.fields
    /\ "command" \in data.fields

\* C20: with dry-run enabled the external tool is never run; each of the
\* four actions returns success = true with data that marks the dry run and
\* carries the command, and the direct strategy completes with success =
\* true and the three successful steps checkBalance, trade, send.
C20_DryRunNeverExecutes ==
    config.dryRun =>
        /\ \A i \in 1..Len(walletLog) :
              LET r == walletLog[i].result
              IN  /\ ~r.executed
                  /\ r.success
                  /\ ~r.error.present
                  /\ IsDryRunData(r.data)
                  /\ r.data.command = CommandOf(walletLog[i].action)
        /\ call.pc = "done" =>
              /\ call.toolRuns = 0
              /\ call.result.success
              /\ StepKinds(call.result.steps) = DirectSteps
              /\ \A i \in 1..Len(call.result.steps) :
                    /\ call.result.steps[i].success
                    /\ IsDryRunData(call.result.steps[i].data)

\* in dry-run, status was called where the tool would have timed out, and
\* the direct strategy completed
C20_Witness ==
    /\ config.dryRun
    /\ call.pc = "done"
    /\ \E i \in 1..Len(walletLog) :
          /\ walletLog[i].action = "status"
          /\ walletLog[i].outcome = "timeout"

----------------------------------------------------------------------------
(* SpecMetrics: one MetricsCollector over a long series of attempts, each  *)
(* recorded as the callback records it: recordRecoveryStart, then the      *)
(* outcome                                                                 *)

MaxFailures == 102

MaxReads == 2

FailureSteps == <<"checkBalance", "trade", "send", "exception">>

\* the step at which the k-th failing attempt of the series fails
StepOfFailure(k) == FailureSteps[(k % Len(FailureSteps)) + 1]

\* an attempt fails; the clock has advanced since the previous failure
AttemptFails(durationMs) ==
    /\ Len(collector.failures) < MaxFailures
    /\ now' = now + 1
    /\ LET step == StepOfFailure(Len(collector.failures))
       IN  collector' =
             [metrics |-> recordRecoveryFailure(
                              recordRecoveryStart(collector.metrics), step,
                              "failed", durationMs, NoContext, now'),
              failures |-> Append(collector.failures,
                                  [timestamp |-> now', step |-> step,
                                   error |-> "failed", context |-> NoContext]),
              reads |-> 0,
              summary |-> NoSummary]
    /\ UNCHANGED <<config, agentVars, call, walletLog, mon, contractVars,
                   dashboardVars>>

AttemptSucceeds(durationMs) ==
    /\ collector.metrics.successfulRecoveries < MaxAttempts
    /\ collector' = [collector EXCEPT
                       !.metrics = recordRecoverySuccess(recordRecoveryStart(@),
                                                         durationMs),
                       !.reads = 0,
                       !.summary = NoSummary]
    /\ UNCHANGED <<config, now, agentVars, call, walletLog, mon, contractVars,
                   dashboardVars>>

\* getMetrics is called; reads counts the calls made since the last update
\* and summary is what the latest of them returned
ReadMetrics ==
    /\ collector.reads < MaxReads
    /\ collector' = [collector EXCEPT
                       !.metrics = AfterGetMetrics(@),
                       !.reads = @ + 1,
                       !.summary = getMetrics(collector.metrics, now)]
    /\ UNCHANGED <<config, now, agentVars, call, walletLog, mon, contractVars,
                   dashboardVars>>

Fails == \E durationMs \in 0..MaxStepMs : AttemptFails(durationMs)

Succeeds == \E durationMs \in 0..MaxStepMs : AttemptSucceeds(durationMs)

NextMetrics == Fails \/ Succeeds \/ ReadMetrics

SpecMetrics == Init /\ [][NextMetrics]_vars

----------------------------------------------------------------------------
(* C17: the error log *)

ErrorLogCap == 100

\* C17: after n recorded failures the error log holds min(n, 100) entries,
\* which are the most recent failures in the order they were recorded.
C17_ErrorLogKeepsMostRecent ==
    LET log == collector.metrics.errors
        n == Len(collector.failures)
    IN  /\ collector.metrics.failedRecoveries = n
        /\ Len(log) <= ErrorLogCap
        /\ Len(log) = Min(n, ErrorLogCap)
        /\ \A i \in 1..Len(log) :
              log[i] = collector.failures[n - Len(log) + i]

\* two failures were recorded after the log became full
C17_Witness ==
    /\ Len(collector.failures) = ErrorLogCap + 2
    /\ Len(collector.metrics.errors) = ErrorLogCap
    /\ collector.metrics.errors[1] = collector.failures[3]

----------------------------------------------------------------------------
(* C21: the plaintext deficit in the confidential strategy *)

\* the encodings of the characters of the deficit: plain and hexadecimal
DeficitEncodings ==
    {call.deficit.text[j] : j \in 1..Len(call.deficit.text)}
        \cup {HexOf[call.deficit.text[j]] : j \in 1..Len(call.deficit.text)}

\* C21: in the confidential strategy no call after the encryption (submit,
\* match, settle) receives the deficit amount, and no recorded step payload
\* contains the amount or a part of it, in any encoding.
C21_PlaintextNotForwarded ==
    RanConfidential =>
        /\ \A i \in 2..Len(call.invoked) :
              call.invoked[i].arg # call.deficit.text
        /\ \A i \in 1..Len(call.steps) :
              \A k \in 1..Len(call.steps[i].data.command) :
                  call.steps[i].data.command[k] \notin DeficitEncodings

----------------------------------------------------------------------------
(* C23: recovery follows every attested insolvency *)

\* C23: when a solvency-false notification is delivered and no solvency-true
\* notification follows it, a recovery attempt is eventually started, at the
\* delivery or after it.
C23_InsolvencyAnswered == unanswered ~> ~unanswered

----------------------------------------------------------------------------
(* C25: what the outcome of an attempt changes in the collector *)

\* the step in which a callback records the outcome of its attempt
RecordingStep == Len(attemptLog') = Len(attemptLog) + 1

\* entry e of the error log describes the outcome ret of executeRecovery
DescribesFailure(e, ret) ==
    IF ret.threw
    THEN e.step = "exception" /\ e.error = ret.message
    ELSE \E i \in 1..Len(ret.result.steps) :
            /\ ~ret.result.steps[i].success
            /\ \A j \in 1..(i - 1) : ret.result.steps[j].success
            /\ e.step = ret.result.steps[i].step
            /\ e.error = ret.result.steps[i].error.msg

RecordedAs(ret) ==
    IF ~ret.threw /\ ret.result.success
    THEN /\ metrics'.errors = metrics.errors
         /\ metrics'.successfulRecoveries = metrics.successfulRecoveries + 1
         /\ metrics'.failedRecoveries = metrics.failedRecoveries
         /\ metrics'.totalRecoveries = metrics.totalRecoveries
         /\ metrics'.startTime = metrics.startTime
    ELSE /\ metrics'.errors # <<>>
         /\ metrics.errors = SubSeq(metrics'.errors, 1, Len(metrics'.errors) - 1)
         /\ DescribesFailure(metrics'.errors[Len(metrics'.errors)], ret)
         /\ metrics'.failedRecoveries = metrics.failedRecoveries + 1
         /\ metrics'.successfulRecoveries = metrics.successfulRecoveries

OutcomeRecorded ==
    IF RecordingStep
    THEN \E h \in 1..Len(handlers) :
            /\ handlers[h].pc = "awaitRecovery"
            /\ RecordedAs(handlers[h].ret)
    ELSE metrics'.errors = metrics.errors

\* C25: an attempt that fails appends exactly one entry to the error log,
\* whose step and error are the kind and message of the first failed step
\* of its result ('exception' and the thrown message when the strategy
\* threw); an attempt that succeeds leaves the error log unchanged and
\* changes only successfulRecoveries and totalResponseTimeMs; no other step
\* changes the error log.
C25_OutcomeRecorded == [][OutcomeRecorded]_vars

\* two attempts failed, the first by an exception and the second at send
C25_Witness ==
    /\ Len(metrics.errors) = 2
    /\ metrics.errors[1].step = "exception"
    /\ metrics.errors[2].step = "send"
    /\ metrics.errors[2].error = "timeout"

----------------------------------------------------------------------------
(* C28: the counters against the recovering flag *)

OutcomeCalls(h) ==
    {i \in 1..Len(handlers[h].calls) :
        handlers[h].calls[i] \in {"recordRecoverySuccess",
                                  "recordRecoveryFailure"}}

NotYetCounted ==
    metrics.totalRecoveries
        - (metrics.successfulRecoveries + metrics.failedRecoveries)

\* C28: while the agent is idle totalRecoveries = successfulRecoveries +
\* failedRecoveries; while it is recovering the difference is 0 or 1; no
\* attempt records both a success and a failure.
C28_BalancedWhenIdle ==
    /\ ~recovering => NotYetCounted = 0
    /\ recovering => NotYetCounted \in {0, 1}
    /\ \A h \in 1..Len(handlers) : Cardinality(OutcomeCalls(h)) <= 1
    /\ Len(attemptLog) <= strategyRuns

\* the second attempt is recorded and the flag is still set
C28_Witness ==
    /\ recovering
    /\ NotYetCounted = 0
    /\ metrics.totalRecoveries = 2

----------------------------------------------------------------------------
(* C26, C27, C29: getMetrics *)

SameReport(a, b) ==
    /\ a.totalRecoveries = b.totalRecoveries
    /\ a.successfulRecoveries = b.successfulRecoveries
    /\ a.failedRecoveries = b.failedRecoveries
    /\ a.errorCount = b.errorCount
    /\ a.recentErrors = b.recentErrors

\* a step in which getMetrics is called
GetMetricsStep == collector'.reads = collector.reads + 1

ReadOnly ==
    GetMetricsStep =>
        /\ collector'.metrics = collector.metrics
        /\ collector.reads > 0 =>
              SameReport(collector.summary, collector'.summary)

\* C26: a getMetrics call changes no counter and not the error log, and two
\* calls with no update in between return the same counters, error count
\* and recent errors.
C26_GetMetricsReadOnly == [][ReadOnly]_vars

\* getMetrics was called twice in a row on a log of more than 10 entries
C26_Witness ==
    /\ collector.reads = 2
    /\ Len(collector.metrics.errors) > 10
    /\ collector.summary.errorCount = Len(collector.metrics.errors)

\* the quotient q, kept as numerator and denominator, equals a / b
IsQuotient(q, a, b) == q.num * b = a * q.den

RatesDefault(r, m) ==
    m.totalRecoveries = 0 =>
        /\ r.successRate.num = 0
        /\ r.avgResponseTimeMs.num = 0

AverageAndRecent(r, m) ==
    /\ m.totalRecoveries > 0 =>
          IsQuotient(r.avgResponseTimeMs, m.totalResponseTimeMs,
                     m.totalRecoveries)
    /\ Len(r.recentErrors) = Min(10, Len(m.errors))
    /\ \A i \in 1..Len(r.recentErrors) :
          r.recentErrors[i] =
              m.errors[Len(m.errors) - Len(r.recentErrors) + i]

\* C27 (as claimed): the success rate is 0 when totalRecoveries = 0 and
\* successfulRecoveries / totalRecoveries otherwise; the average duration is
\* 0 or totalResponseTimeMs / totalRecoveries; recentErrors is the last
\* min(10, n) entries of the error log, in order.
C27_RateIsFraction ==
    collector.reads > 0 =>
        /\ RatesDefault(collector.summary, collector.metrics)
        /\ collector.metrics.totalRecoveries > 0 =>
              IsQuotient(collector.summary.successRate,
                         collector.metrics.successfulRecoveries,
                         collector.metrics.totalRecoveries)
        /\ AverageAndRecent(collector.summary, collector.metrics)

\* C27 (amended): as claimed, except that the success rate is the percentage
\* 100 * successfulRecoveries / totalRecoveries.
C27_RateIsPercentage ==
    collector.reads > 0 =>
        /\ RatesDefault(collector.summary, collector.metrics)
        /\ collector.metrics.totalRecoveries > 0 =>
              IsQuotient(collector.summary.successRate,
                         100 * collector.metrics.successfulRecoveries,
                         collector.metrics.totalRecoveries)
        /\ AverageAndRecent(collector.summary, collector.metrics)

\* getMetrics was called after 2 successes and 12 failures
C27_Witness ==
    /\ collector.reads > 0
    /\ collector.metrics.successfulRecoveries = 2
    /\ collector.metrics.failedRecoveries = 12
    /\ Len(collector.summary.recentErrors) = 10

\* C29: the error log has min(failedRecoveries, 100) entries, so getMetrics
\* reports errorCount = min(failedRecoveries, 100) and min(failedRecoveries,
\* 10) recent errors.
C29_LogLengthFollowsFailures ==
    /\ Len(collector.metrics.errors) =
          Min(collector.metrics.failedRecoveries, ErrorLogCap)
    /\ collector.reads > 0 =>
          /\ collector.summary.errorCount =
                Min(collector.metrics.failedRecoveries, ErrorLogCap)
          /\ Len(collector.summary.recentErrors) =
                Min(collector.metrics.failedRecoveries, 10)

\* getMetrics was called after 101 failures
C29_Witness ==
    /\ collector.metrics.failedRecoveries = ErrorLogCap + 1
    /\ collector.reads > 0
    /\ collector.summary.errorCount = ErrorLogCap

----------------------------------------------------------------------------
(* SpecMonitor: agent/monitor.ts startMonitor, driven by a growing chain,  *)
(* with the callback and the shutdown handler of agent/index.ts. The wallet *)
(* steps of an attempt run inside the handler call, inside execSync.        *)

MaxBlocks == 3

\* the ReserveStatusUpdated events of one block: their isSolvent arguments
BlockContents == {<<>>, <<FALSE>>, <<TRUE>>, <<FALSE, TRUE>>}

EventsOfBlock(chain, b) ==
    [i \in 1..Len(chain[b]) |->
        [block |-> b, index |-> i, isSolvent |-> chain[b][i]]]

\* what getContractEvents({fromBlock, toBlock}) returns
RECURSIVE getContractEvents(_, _, _)
getContractEvents(chain, fromBlock, toBlock) ==
    IF fromBlock > toBlock THEN <<>>
    ELSE EventsOfBlock(chain, fromBlock)
            \o getContractEvents(chain, fromBlock + 1, toBlock)

\* JavaScript runs to completion: timers, promise continuations and signal
\* handlers run only while no synchronous code is running, that is, not in
\* the middle of the dispatch loop and not while execSync blocks.
EventLoopFree_Always == TRUE

EventLoopFree == mon.pc \in {"getBlockNumber", "getContractEvents", "sleep",
                             "returned"}

MonitorFrame ==
    UNCHANGED <<config, now, agentVars, call, walletLog, collector,
                contractVars, dashboardVars>>

\* a block is mined
Mine(contents) ==
    /\ ~mon.exited
    /\ Len(mon.chain) < MaxBlocks
    /\ mon' = [mon EXCEPT !.chain = Append(@, contents)]
    /\ MonitorFrame

\* Variant: the catch block advances lastBlock as well
AfterPollError_Advances(m) ==
    [m EXCEPT !.pc = "sleep", !.lastBlock = m.currentBlock]

\* the catch block of poll (lines 41-43), then the setTimeout of line 45
AfterPollError(m) == [m EXCEPT !.pc = "sleep"]

\* client.getBlockNumber() settles (line 21): with the number of a block the
\* node has, or with an RPC error
BlockNumberSettles(ok, number) ==
    /\ ~mon.exited
    /\ mon.pc = "getBlockNumber"
    /\ mon' = IF ~ok THEN AfterPollError(mon)
              ELSE IF number > mon.lastBlock
              THEN [mon EXCEPT !.currentBlock = number,
                               !.pc = "getContractEvents"]
              ELSE [mon EXCEPT !.currentBlock = number, !.pc = "sleep"]
    /\ MonitorFrame

\* client.getContractEvents() settles (lines 24-30)
EventsSettle(ok) ==
    /\ ~mon.exited
    /\ mon.pc = "getContractEvents"
    /\ mon' = IF ~ok THEN AfterPollError(mon)
              ELSE [mon EXCEPT
                      !.logs = getContractEvents(mon.chain, mon.lastBlock + 1,
                                                 mon.currentBlock),
                      !.next = 1,
                      !.pc = "dispatch"]
    /\ MonitorFrame

\* One iteration of the for loop over logs (lines 32-37), or its end and
\* line 39. onStatus runs up to its first await inside the call: when it
\* starts an attempt, the direct strategy runs there, and without dry-run its
\* first wallet step enters execSync.
Dispatch ==
    /\ ~mon.exited
    /\ mon.pc = "dispatch"
    /\ IF mon.next > Len(mon.logs)
       THEN mon' = [mon EXCEPT
                      !.lastBlock = mon.currentBlock,
                      !.ranges = Append(@, [fromBlock |-> mon.lastBlock + 1,
                                            toBlock |-> mon.currentBlock]),
                      !.logs = <<>>, !.next = 1, !.pc = "sleep"]
       ELSE LET log == mon.logs[mon.next]
            IN  IF StartsAttempt(log.isSolvent, mon.recovering)
                THEN IF config.dryRun
                     THEN mon' = [mon EXCEPT
                                    !.dispatched = Append(@, log),
                                    !.recovering = TRUE, !.suspended = TRUE,
                                    !.next = @ + 1]
                     ELSE mon' = [mon EXCEPT
                                    !.dispatched = Append(@, log),
                                    !.recovering = TRUE,
                                    !.pc = "execSync", !.step = 1]
                ELSE mon' = [mon EXCEPT !.dispatched = Append(@, log),
                                        !.next = @ + 1]
    /\ MonitorFrame

\* execSync returns or throws (wallet.ts:18-29): the strategy goes on with its
\* next wallet step, or returns; the callback is then suspended at its await
\* and the for loop goes on.
ExecReturns(ok) ==
    /\ ~mon.exited
    /\ mon.pc = "execSync"
    /\ mon' = IF ok /\ mon.step < 3
              THEN [mon EXCEPT !.step = @ + 1]
              ELSE [mon EXCEPT !.step = 0, !.suspended = TRUE,
                               !.pc = "dispatch", !.next = @ + 1]
    /\ MonitorFrame

\* the rest of the callback: outcome recorded, report awaited, finally block
CallbackCompletes ==
    /\ ~mon.exited
    /\ mon.suspended
    /\ EventLoopFree
    /\ mon' = [mon EXCEPT !.suspended = FALSE,
                          !.recovering = FinallyFlag(@)]
    /\ MonitorFrame

\* the timer of line 45 fires and the while condition is tested
TimerFires ==
    /\ ~mon.exited
    /\ mon.pc = "sleep"
    /\ mon' = [mon EXCEPT !.pc = IF mon.stopped THEN "returned"
                                               ELSE "getBlockNumber"]
    /\ MonitorFrame

\* the function returned by startMonitor is called (lines 51-53)
Stop ==
    /\ ~mon.exited
    /\ EventLoopFree
    /\ ~mon.stopped
    /\ mon' = [mon EXCEPT !.stopped = TRUE]
    /\ MonitorFrame

\* SIGTERM or SIGINT reaches the process, at any moment
Signal ==
    /\ ~mon.exited
    /\ ~mon.signal
    /\ mon' = [mon EXCEPT !.signal = TRUE,
                          !.signalInStep = (mon.pc = "execSync")]
    /\ MonitorFrame

\* the shutdown handler runs (index.ts:102-106): stop(), process.exit(0)
Shutdown ==
    /\ ~mon.exited
    /\ mon.signal
    /\ EventLoopFree
    /\ mon' = [mon EXCEPT !.stopped = TRUE, !.exited = TRUE]
    /\ MonitorFrame

Mined == \E contents \in BlockContents : Mine(contents)

BlockNumber ==
    \E ok \in BOOLEAN : \E number \in 0..Len(mon.chain) :
        (ok \/ number = 0) /\ BlockNumberSettles(ok, number)

Events == \E ok \in BOOLEAN : EventsSettle(ok)

Exec == \E ok \in BOOLEAN : ExecReturns(ok)

NextMonitor ==
    \/ Mined \/ BlockNumber \/ Events \/ Dispatch \/ Exec
    \/ CallbackCompletes \/ TimerFires \/ Stop \/ Signal \/ Shutdown

SpecMonitor == Init /\ [][NextMonitor]_vars

----------------------------------------------------------------------------
(* C24, C30, C22: delivery of events, stop, shutdown *)

EarlierEvent(a, b) ==
    \/ a.block < b.block
    \/ a.block = b.block /\ a.index < b.index

\* the blocks whose events have all been passed to the handler
DeliveredBlocks ==
    IF mon.pc \in {"dispatch", "execSync"} /\ mon.next > Len(mon.logs)
    THEN mon.currentBlock
    ELSE mon.lastBlock

RangesTile ==
    /\ \A i \in 1..Len(mon.ranges) :
          /\ mon.ranges[i].fromBlock <= mon.ranges[i].toBlock
          /\ mon.ranges[i].fromBlock =
                IF i = 1 THEN 1 ELSE mon.ranges[i - 1].toBlock + 1
    /\ mon.lastBlock = IF mon.ranges = <<>> THEN 0
                       ELSE mon.ranges[Len(mon.ranges)].toBlock

\* C24: across polls, failed ones included, the handler is passed every
\* event of the blocks 1..lastBlock exactly once and in block order; the
\* ranges fetched and dispatched follow one another without overlap or gap,
\* and lastBlock is the end of the last of them.
C24_EveryEventOnceInOrder ==
    /\ \A k, l \in 1..Len(mon.dispatched) :
          k < l => EarlierEvent(mon.dispatched[k], mon.dispatched[l])
    /\ \A k \in 1..Len(mon.dispatched) :
          LET e == mon.dispatched[k]
          IN  /\ e.block \in 1..Len(mon.chain)
              /\ e.index \in 1..Len(mon.chain[e.block])
              /\ e.isSolvent = mon.chain[e.block][e.index]
    /\ \A b \in 1..DeliveredBlocks :
          \A i \in 1..Len(mon.chain[b]) :
              \E k \in 1..Len(mon.dispatched) :
                  /\ mon.dispatched[k].block = b
                  /\ mon.dispatched[k].index = i
    /\ RangesTile

\* three blocks were delivered in two ranges, with at least three events
C24_Witness ==
    /\ mon.lastBlock = 3
    /\ Len(mon.ranges) = 2
    /\ Len(mon.dispatched) >= 3

\* C30: once stop was called the handler is not invoked again, also when
\* stop was called while a poll was in progress.
C30_NoCallAfterStop ==
    [][mon.stopped => mon'.dispatched = mon.dispatched]_vars

\* C22: when a shutdown signal is handled while an attempt is in flight, the
\* process does not exit in the middle of a step.
C22_NoExitMidStep ==
    mon.exited => (mon.pc # "execSync" /\ mon.step = 0)

\* the signal arrived while a wallet step was executing, and the process
\* exited with the attempt still in flight
C22_Witness ==
    /\ mon.exited
    /\ mon.signalInStep
    /\ mon.recovering
    /\ mon.suspended

----------------------------------------------------------------------------
(* contracts/ReserveAttestation.sol                                        *)
(* One action per external function; a transaction that reverts changes    *)
(* nothing in the contract and is kept in txs with reverted = TRUE.        *)

MaxTxs == 3
MaxBlockTime == 3

\* the report bytes handed to onReport, as 32-byte words
Reports == {<<>>, <<0>>, <<1>>, <<2>>}

\* abi.decode(report, (bool)): reverts on less than one word and on a word
\* that is neither 0 nor 1
DecodesToBool(report) == Len(report) >= 1 /\ report[1] \in {0, 1}

abiDecodeBool(report) == report[1] = 1

AttestationFrame ==
    UNCHANGED <<config, now, agentVars, call, walletLog, collector, mon,
                pool, dashboardVars>>

Transaction(sender, fn, reverted) ==
    [sender |-> sender, fn |-> fn, reverted |-> reverted]

\* the body shared by updateAttestation and onReport
Attest(a, solvent) ==
    [a EXCEPT !.isSolvent = solvent,
              !.lastUpdated = a.timestamp,
              !.events = Append(@, [isSolvent |-> solvent,
                                    timestamp |-> a.timestamp])]

\* modifier onlyOwner
onlyOwner(a, sender) == sender = a.owner

updateAttestation(sender, solvent) ==
    /\ Len(attestation.txs) < MaxTxs
    /\ LET ok == onlyOwner(attestation, sender)
           a == IF ok THEN Attest(attestation, solvent) ELSE attestation
       IN attestation' =
              [a EXCEPT !.txs = Append(@, Transaction(sender,
                                           "updateAttestation", ~ok))]
    /\ AttestationFrame

onReport(sender, report) ==
    /\ Len(attestation.txs) < MaxTxs
    /\ LET ok == DecodesToBool(report)
           a == IF ok THEN Attest(attestation, abiDecodeBool(report))
                      ELSE attestation
       IN attestation' =
              [a EXCEPT !.txs = Append(@, Transaction(sender, "onReport",
                                                      ~ok))]
    /\ AttestationFrame

\* a later block: block.timestamp grows
NextBlock ==
    /\ attestation.timestamp < MaxBlockTime
    /\ attestation' = [attestation EXCEPT !.timestamp = @ + 1]
    /\ AttestationFrame

UpdateAttestation ==
    \E sender \in Accounts, solvent \in BOOLEAN :
        updateAttestation(sender, solvent)

OnReport ==
    \E sender \in Accounts, report \in Reports : onReport(sender, report)

NextAttestation == UpdateAttestation \/ OnReport \/ NextBlock

SpecAttestation == Init /\ [][NextAttestation]_vars

\* C31: a call from an account other than the owner leaves isSolvent and
\* lastUpdated unchanged and emits no ReserveStatusUpdated event.
C31_OnlyOwnerAttests ==
    [][(/\ Len(attestation'.txs) = Len(attestation.txs) + 1
        /\ attestation'.txs[Len(attestation'.txs)].sender # attestation.owner)
       => (/\ attestation'.isSolvent = attestation.isSolvent
           /\ attestation'.lastUpdated = attestation.lastUpdated
           /\ attestation'.events = attestation.events)]_vars

----------------------------------------------------------------------------
(* contracts/darkpool/CREDarkPool.sol                                      *)
(* One action per external function that writes a request, a fill or a    *)
(* ticket. A transaction that reverts leaves the contract as it was; it    *)
(* is a step that changes nothing. bytes32 values                          *)
(* are small integers, 0 being bytes32(0); a request id is the tuple of    *)
(* the values keccak256 is applied to.                                     *)

MaxSettlements == 2
MaxPoolBlocks == 2
MaxRequests == 2

\* the limits of requestCollateral
MaxPremiumBps == 1000
MinTimeout == 300
MaxTimeout == 86400

PoolAccounts == {"keeper", "stranger", "tee", "enclave"}

\* the recovery agent makes the requests; any account can send the other
\* transactions
Requesters == {"keeper"}

Withdrawers == {"keeper", "stranger"}

\* the shielded addresses of requests, and one more that fills can name
ShieldedAddresses == {1}

FillAddresses == ShieldedAddresses \cup {2}

Tickets == {0, 1}

PremiumsBps == {100, 1001}

Timeouts == {299, 300, 86401}

\* seconds between two blocks
BlockTimes == {1, 300}

Amounts == {5}

\* requests[requestId], fills[requestId] of an id never written
NoRequest ==
    [requester |-> "0x0", shieldedAddress |-> 0, premiumBps |-> 0,
     timeout |-> 0, status |-> "NONE", withdrawalTicket |-> 0,
     createdAt |-> 0]

NoFill == [shieldedAddress |-> 0, withdrawn |-> FALSE]

Lookup(map, key, default) ==
    IF key \in DOMAIN map THEN map[key] ELSE default

Put(map, key, value) ==
    [k \in DOMAIN map \cup {key} |-> IF k = key THEN value ELSE map[k]]

RequestOf(p, requestId) == Lookup(p.requests, requestId, NoRequest)

FillOf(p, requestId) == Lookup(p.fills, requestId, NoFill)

\* keccak256(abi.encodePacked(msg.sender, encryptedAmount, shieldedAddress,
\* block.timestamp, block.number)): one encrypted amount, one block per
\* timestamp
RequestId(sender, shieldedAddress, timestamp) ==
    <<sender, shieldedAddress, timestamp>>

\* the ids transactions are sent with: the requests made and one id that
\* no request has
UnknownId == <<"stranger", 0, 0>>

RequestIds == DOMAIN pool.requests \cup {UnknownId}

hasRole(p, role, account) == account \in p.roles[role]

\* block.timestamp > req.createdAt + req.timeout
PastTimeout(req, timestamp) == timestamp > req.createdAt + req.timeout

\* block.timestamp <= req.createdAt + req.timeout, the test of expireRequest
NotExpiredYet_Strict(req, timestamp) ==
    timestamp < req.createdAt + req.timeout

NotExpiredYet(req, timestamp) == timestamp <= req.createdAt + req.timeout

Open(req) == req.status \in {"PENDING", "PARTIALLY_FILLED"}

PoolFrame ==
    UNCHANGED <<config, now, agentVars, call, walletLog, collector, mon,
                attestation, dashboardVars>>

requestCollateral(sender, premiumBps, timeout, shieldedAddress) ==
    LET requestId == RequestId(sender, shieldedAddress, pool.timestamp)
        reverts == \/ premiumBps > MaxPremiumBps
                   \/ timeout < MinTimeout \/ timeout > MaxTimeout
                   \/ RequestOf(pool, requestId).status # "NONE"
        req == [requester |-> sender, shieldedAddress |-> shieldedAddress,
                premiumBps |-> premiumBps, timeout |-> timeout,
                status |-> "PENDING", withdrawalTicket |-> 0,
                createdAt |-> pool.timestamp]
    IN /\ reverts \/ Cardinality(DOMAIN pool.requests) < MaxRequests
       /\ pool' = (IF reverts THEN pool
                       ELSE [pool EXCEPT !.requests = Put(@, requestId, req)])
       /\ PoolFrame

confidentialFill(sender, requestId, shieldedAddress, withdrawalTicket) ==
    LET req == RequestOf(pool, requestId)
        reverts == \/ ~hasRole(pool, "TEE_VERIFIER_ROLE", sender)
                   \/ req.status # "PENDING"
                   \/ PastTimeout(req, pool.timestamp)
                   \/ shieldedAddress # req.shieldedAddress
    IN /\ pool' = (IF reverts THEN pool
                       ELSE [pool EXCEPT
                               !.fills = Put(@, requestId,
                                   [shieldedAddress |-> shieldedAddress,
                                    withdrawn |-> FALSE]),
                               !.requests[requestId].withdrawalTicket =
                                   withdrawalTicket,
                               !.requests[requestId].status = "FILLED",
                               !.issued = @ \cup {requestId}])
       /\ PoolFrame

cccSettle(sender, requestId, balanceHash, recoverySucceeded) ==
    LET req == RequestOf(pool, requestId)
        reverts == \/ ~hasRole(pool, "CCC_ENCLAVE_ROLE", sender)
                   \/ ~Open(req)
                   \/ PastTimeout(req, pool.timestamp)
    IN /\ reverts \/ pool.balanceTable.version < MaxSettlements
       /\ pool' = (IF reverts THEN pool
                       ELSE [pool EXCEPT
                               !.balanceTable =
                                   [balanceHash |-> balanceHash,
                                    lastUpdated |-> pool.timestamp,
                                    version |-> @.version + 1],
                               !.settlementResults = Put(@, requestId,
                                   [recoverySucceeded |-> recoverySucceeded,
                                    balanceHash |-> balanceHash,
                                    timestamp |-> pool.timestamp]),
                               !.requests[requestId].status =
                                   IF recoverySucceeded THEN "FILLED" ELSE @])
       /\ PoolFrame

\* the ticket test of withdrawWithTicket
TicketAlreadyUsed_Never(p, ticket) == FALSE

TicketAlreadyUsed(p, ticket) == ticket \in p.usedTickets

\* transferOk: IERC20(token).transfer returned true
withdrawWithTicket(sender, requestId, amount, ticket, transferOk) ==
    LET req == RequestOf(pool, requestId)
        fill == FillOf(pool, requestId)
        reverts == \/ req.status # "FILLED"
                   \/ req.requester # sender
                   \/ req.withdrawalTicket # ticket
                   \/ TicketAlreadyUsed(pool, ticket)
                   \/ fill.withdrawn
                   \/ ~transferOk
    IN /\ pool' = (IF reverts THEN pool
                       ELSE [pool EXCEPT
                               !.usedTickets = @ \cup {ticket},
                               !.fills = Put(@, requestId,
                                   [fill EXCEPT !.withdrawn = TRUE]),
                               !.transfers = Append(@,
                                   [requestId |-> requestId,
                                    recipient |-> sender,
                                    amount |-> amount,
                                    ticket |-> ticket])])
       /\ PoolFrame

confidentialPartialFill(sender, requestId, withdrawalTicket, isFinalFill) ==
    LET req == RequestOf(pool, requestId)
        reverts == \/ ~hasRole(pool, "TEE_VERIFIER_ROLE", sender)
                   \/ ~Open(req)
                   \/ PastTimeout(req, pool.timestamp)
    IN /\ pool' = (IF reverts THEN pool
                       ELSE IF isFinalFill
                       THEN [pool EXCEPT
                               !.requests[requestId].withdrawalTicket =
                                   withdrawalTicket,
                               !.requests[requestId].status = "FILLED",
                               !.issued = @ \cup {requestId}]
                       ELSE [pool EXCEPT
                               !.requests[requestId].status =
                                   "PARTIALLY_FILLED"])
       /\ PoolFrame

expireRequest(requestId) ==
    LET req == RequestOf(pool, requestId)
        reverts == \/ ~Open(req)
                   \/ NotExpiredYet(req, pool.timestamp)
    IN /\ pool' = (IF reverts THEN pool
                       ELSE [pool EXCEPT
                               !.requests[requestId].status = "EXPIRED"])
       /\ PoolFrame

\* a later block
PoolBlock(seconds) ==
    /\ pool.blocks < MaxPoolBlocks
    /\ pool' = [pool EXCEPT !.timestamp = @ + seconds, !.blocks = @ + 1]
    /\ PoolFrame

RequestCollateral ==
    \E sender \in Requesters, premiumBps \in PremiumsBps,
       timeout \in Timeouts, shieldedAddress \in ShieldedAddresses :
        requestCollateral(sender, premiumBps, timeout, shieldedAddress)

ConfidentialFill ==
    \E sender \in {"tee", "stranger"}, requestId \in RequestIds,
       shieldedAddress \in FillAddresses, withdrawalTicket \in Tickets :
        confidentialFill(sender, requestId, shieldedAddress,
                         withdrawalTicket)

CccSettle ==
    \E sender \in {"enclave", "stranger"}, requestId \in RequestIds,
       recoverySucceeded \in BOOLEAN :
        cccSettle(sender, requestId, "0xh", recoverySucceeded)

WithdrawWithTicket ==
    \E sender \in Withdrawers, requestId \in RequestIds, amount \in Amounts,
       ticket \in Tickets, transferOk \in BOOLEAN :
        withdrawWithTicket(sender, requestId, amount, ticket, transferOk)

ConfidentialPartialFill ==
    \E sender \in {"tee", "stranger"}, requestId \in RequestIds,
       withdrawalTicket \in Tickets, isFinalFill \in BOOLEAN :
        confidentialPartialFill(sender, requestId, withdrawalTicket,
                                isFinalFill)

ExpireRequest == \E requestId \in RequestIds : expireRequest(requestId)

MineBlock == \E seconds \in BlockTimes : PoolBlock(seconds)

NextDarkPool ==
    \/ RequestCollateral
    \/ ConfidentialFill
    \/ CccSettle
    \/ WithdrawWithTicket
    \/ ConfidentialPartialFill
    \/ ExpireRequest
    \/ MineBlock

\* the contract reads nothing of the agent's configuration
InitDarkPool == Init /\ config = [dryRun |-> FALSE, reportingEnabled |-> FALSE]

SpecDarkPool == InitDarkPool /\ [][NextDarkPool]_vars

\* C32: withdrawal tickets are one-time use: no request is withdrawn from
\* twice and no ticket value is accepted twice, so every later attempt with
\* the same request or ticket transfers nothing.
C32_TicketsOneTimeUse ==
    \A i, j \in 1..Len(pool.transfers) :
        i # j => /\ pool.transfers[i].requestId # pool.transfers[j].requestId
                 /\ pool.transfers[i].ticket # pool.transfers[j].ticket

\* one withdrawal was made, and another filled request of the same requester
\* carries the ticket value it used
C32_Witness ==
    /\ Len(pool.transfers) = 1
    /\ \E requestId \in DOMAIN pool.requests :
           /\ requestId # pool.transfers[1].requestId
           /\ pool.requests[requestId].status = "FILLED"
           /\ pool.requests[requestId].requester = pool.transfers[1].recipient
           /\ pool.requests[requestId].withdrawalTicket
                  = pool.transfers[1].ticket
           /\ ~FillOf(pool, requestId).withdrawn

StatusChanges ==
    {<<"NONE", "PENDING">>, <<"PENDING", "PARTIALLY_FILLED">>,
     <<"PENDING", "FILLED">>, <<"PENDING", "EXPIRED">>,
     <<"PARTIALLY_FILLED", "FILLED">>, <<"PARTIALLY_FILLED", "EXPIRED">>}

NoSettlement == [recoverySucceeded |-> FALSE, balanceHash |-> "0x0",
                 timestamp |-> 0]

RequestLifecycle ==
    \A requestId \in DOMAIN pool'.requests :
        LET old == RequestOf(pool, requestId)
            new == pool'.requests[requestId]
            deadline == old.createdAt + old.timeout
            settles == Lookup(pool'.settlementResults, requestId,
                              NoSettlement)
                       # Lookup(pool.settlementResults, requestId,
                                NoSettlement)
        IN /\ old.status # new.status
                  => <<old.status, new.status>> \in StatusChanges
           /\ old.status # "NONE"
                  => /\ new.createdAt = old.createdAt
                     /\ new.timeout = old.timeout
           /\ (old.status # new.status
                   /\ new.status \in {"PARTIALLY_FILLED", "FILLED"})
                  => pool.timestamp <= deadline
           /\ settles => pool.timestamp <= deadline
           /\ (old.status # new.status /\ new.status = "EXPIRED")
                  => pool.timestamp > deadline

\* C33: a request only moves NONE -> PENDING -> PARTIALLY_FILLED -> FILLED
\* or EXPIRED, FILLED and EXPIRED are final, no fill or settlement is
\* accepted after createdAt + timeout, and expireRequest succeeds only after
\* createdAt + timeout.
C33_RequestLifecycle == [][RequestLifecycle]_vars

\* one request was filled in time and another one expired
C33_Witness ==
    \E filled, expired \in DOMAIN pool.requests :
        /\ pool.requests[filled].status = "FILLED"
        /\ pool.requests[expired].status = "EXPIRED"

\* C34: a withdrawal succeeds only for a request whose withdrawal ticket was
\* issued by confidentialFill or by a final confidentialPartialFill.
C34_WithdrawalNeedsIssuedTicket ==
    \A i \in 1..Len(pool.transfers) :
        pool.transfers[i].requestId \in pool.issued

----------------------------------------------------------------------------
(* dashboard/server.ts                                                     *)
(* One action per request handler, timer callback and loop step. The       *)
(* simulation endpoints are those of the complete copy of the server       *)
(* (with /api/simulate-large and /api/reset); a handler runs from its      *)
(* request to its response in one step.                                    *)

MaxServed == 3
MaxTicks == 2

HistoryCap == 100
SimulateOverrideMs == 10000
SimulateDelayMs == 3000
SimulateLargeOverrideMs == 12000
SimulateLargeDelayMs == 4000
SimulateFailureOverrideMs == 600000
AgentTimeout == 300000

\* milliseconds that pass between two steps
TickMs == {3000, 300000}

DashboardFrame ==
    UNCHANGED <<config, now, agentVars, call, walletLog, collector, mon,
                contractVars, health, services>>

\* recoveryHistory.splice(0, recoveryHistory.length - 100) when the length
\* is above 100
KeepLast(history, cap) ==
    IF Len(history) > cap
    THEN SubSeq(history, Len(history) - cap + 1, Len(history))
    ELSE history

HistoryEntry(d, success, source) ==
    [success |-> success, source |-> source]

\* POST /api/agent-activity with a body that has metrics and/or a recovery
\* ("none", "success", "failure"); the agent sends no action field
agentActivity(d, hasMetrics, recovery) ==
    LET reported == IF hasMetrics
                    THEN [d EXCEPT !.agentMetrics =
                                       [reported |-> TRUE, total |-> 1,
                                        successful |-> 1, failed |-> 0],
                                   !.agentLastReport = d.now,
                                   !.lastAgentReportTime = d.now,
                                   !.agentDownAlertSent = FALSE,
                                   !.alerts = <<>>]
                    ELSE d
    IN IF recovery = "none" THEN reported
       ELSE [reported EXCEPT
               !.recoveryHistory =
                   KeepLast(Append(@, HistoryEntry(d, recovery = "success",
                                                   "agent")),
                            HistoryCap)]

\* n reports of a successful recovery, one after the other, with n below
\* the cap: the state after one of them, with n equal entries
ReportsOfSuccess(d, n) ==
    [agentActivity(d, TRUE, "success") EXCEPT
        !.recoveryHistory =
            d.recoveryHistory
                \o [i \in 1..n |-> HistoryEntry(d, TRUE, "agent")]]

\* the first part shared by the three simulation handlers: the overrides
\* and the undercollateralization event
StartSimulation(d, origin, overrideMs) ==
    LET override == [set |-> TRUE, isSolvent |-> FALSE,
                     expiresAt |-> d.now + overrideMs,
                     request |-> d.requests + 1, origin |-> origin]
    IN [d EXCEPT !.requests = @ + 1,
                 !.overrideReserves = override,
                 !.overrideAttestation = override,
                 !.events = Append(@, FALSE)]

Recovered(m, success) ==
    [reported |-> TRUE, total |-> m.total + 1,
     successful |-> m.successful + (IF success THEN 1 ELSE 0),
     failed |-> m.failed + (IF success THEN 0 ELSE 1)]

\* POST /api/simulate and POST /api/simulate-large: setTimeout of the
\* recovery phase
simulate(d, origin, overrideMs, delayMs) ==
    [StartSimulation(d, origin, overrideMs) EXCEPT
        !.timers = @ \cup {[origin |-> origin, dueAt |-> d.now + delayMs,
                            request |-> d.requests + 1]}]

\* the callback of that timer
recoveryPhase(d, timer) ==
    [d EXCEPT !.overrideReserves = NoOverride,
              !.overrideAttestation = NoOverride,
              !.recoveryHistory = Append(@, HistoryEntry(d, TRUE,
                                                         timer.origin)),
              !.events = Append(@, TRUE),
              !.agentMetrics = Recovered(@, TRUE),
              !.timers = @ \ {timer}]

\* POST /api/simulate-failure
simulateFailure(d) ==
    [StartSimulation(d, "simulate-failure", SimulateFailureOverrideMs) EXCEPT
        !.recoveryHistory = Append(@, HistoryEntry(d, FALSE,
                                                   "simulate-failure")),
        !.agentMetrics = Recovered(@, FALSE)]

\* POST /api/reset
reset(d) ==
    [d EXCEPT !.overrideReserves = NoOverride,
              !.overrideAttestation = NoOverride]

\* GET /api/status: an override is dropped when Date.now() > expiresAt
Unexpired(d, override) ==
    IF override.set /\ d.now > override.expiresAt THEN NoOverride
    ELSE override

status(d) ==
    [d EXCEPT !.overrideReserves = Unexpired(d, @),
              !.overrideAttestation = Unexpired(d, @)]

Served(d) == [d EXCEPT !.served = @ + 1]

AgentActivity ==
    /\ dash.served < MaxServed
    /\ \E hasMetrics \in BOOLEAN, recovery \in {"none", "success", "failure"} :
           dash' = Served(agentActivity(dash, hasMetrics, recovery))
    /\ DashboardFrame

\* the dashboard has received HistoryCap - 1 reports of successful recoveries
ReportBatch ==
    /\ dash.served = 0
    /\ dash.recoveryHistory = <<>>
    /\ dash' = Served(ReportsOfSuccess(dash, HistoryCap - 1))
    /\ DashboardFrame

\* fetched: fetchChainlinkData() resolved; otherwise the handler answers 500
Simulate ==
    /\ dash.served < MaxServed
    /\ \E fetched \in BOOLEAN :
           dash' = Served(IF fetched
                          THEN simulate(dash, "simulate", SimulateOverrideMs,
                                        SimulateDelayMs)
                          ELSE dash)
    /\ DashboardFrame

SimulateLarge ==
    /\ dash.served < MaxServed
    /\ \E fetched \in BOOLEAN :
           dash' = Served(IF fetched
                          THEN simulate(dash, "simulate-large",
                                        SimulateLargeOverrideMs,
                                        SimulateLargeDelayMs)
                          ELSE dash)
    /\ DashboardFrame

SimulateFailure ==
    /\ dash.served < MaxServed
    /\ \E fetched \in BOOLEAN :
           dash' = Served(IF fetched THEN simulateFailure(dash) ELSE dash)
    /\ DashboardFrame

RecoveryPhase ==
    /\ \E timer \in dash.timers :
           /\ dash.now >= timer.dueAt
           /\ dash' = recoveryPhase(dash, timer)
    /\ DashboardFrame

Reset ==
    /\ dash' = reset(dash)
    /\ DashboardFrame

Status ==
    /\ dash' = status(dash)
    /\ DashboardFrame

TimePasses ==
    /\ dash.ticks < MaxTicks
    /\ \E ms \in TickMs : dash' = [dash EXCEPT !.now = @ + ms, !.ticks = @ + 1]
    /\ DashboardFrame

\* monitorAgentHealth wakes up from its 30 s timer and tests the time since
\* the last report; sendAlert records the alert before its first await
WatchWakes ==
    /\ dash.watch.pc = "sleep"
    /\ dash.now >= dash.watch.dueAt
    /\ LET timeSinceReport == dash.now - dash.lastAgentReportTime
       IN IF /\ dash.lastAgentReportTime # 0
             /\ timeSinceReport > AgentTimeout
             /\ ~dash.agentDownAlertSent
          THEN dash' = [dash EXCEPT
                          !.alerts = Append(@, [timestamp |-> dash.now,
                                                timeSinceReport |->
                                                    timeSinceReport]),
                          !.watch.pc = "sendAlert"]
          ELSE dash' = [dash EXCEPT !.watch.dueAt = dash.now + WatchInterval]
    /\ DashboardFrame

\* await alertManager.sendAlert(...) resolves
AlertSettles ==
    /\ dash.watch.pc = "sendAlert"
    /\ dash' = [dash EXCEPT !.agentDownAlertSent = TRUE,
                            !.watch = [pc |-> "sleep",
                                       dueAt |-> dash.now + WatchInterval]]
    /\ DashboardFrame

NextDashboard ==
    \/ AgentActivity
    \/ ReportBatch
    \/ Simulate
    \/ SimulateLarge
    \/ SimulateFailure
    \/ RecoveryPhase
    \/ Reset
    \/ Status
    \/ TimePasses

\* the agent reports and the background loop that watches for them
NextAgentWatch ==
    \/ AgentActivity
    \/ TimePasses
    \/ WatchWakes
    \/ AlertSettles

\* the dashboard reads nothing of the agent's configuration
InitServer == Init /\ config = [dryRun |-> FALSE, reportingEnabled |-> FALSE]

SpecDashboard == InitServer /\ [][NextDashboard]_vars

SpecAgentWatch == InitServer /\ [][NextAgentWatch]_vars

\* C35: recoveryHistory never holds more than 100 entries after a request
\* or timer callback has run.
C35_HistoryCapped == Len(dash.recoveryHistory) <= HistoryCap

\* C36: a timer scheduled by a simulate or simulate-large request that came
\* before a simulate-failure request does not clear the overrides of that
\* simulate-failure request.
EarlierTimerKeepsOverrides ==
    \A timer \in dash.timers :
        (/\ dash'.timers = dash.timers \ {timer}
         /\ dash.overrideReserves.origin = "simulate-failure"
         /\ dash.overrideAttestation.origin = "simulate-failure"
         /\ timer.request < dash.overrideReserves.request)
        => /\ dash'.overrideReserves = dash.overrideReserves
           /\ dash'.overrideAttestation = dash.overrideAttestation

C36_FailureOverridesStay == [][EarlierTimerKeepsOverrides]_vars

\* C38: between two reports with metrics at most one AGENT_DOWN alert is
\* sent, none is sent unless more than 5 minutes passed since the last
\* report, and a new report re-arms the alert.
C38_AgentDownAlert ==
    /\ Len(dash.alerts) <= 1
    /\ \A i \in 1..Len(dash.alerts) :
           dash.alerts[i].timeSinceReport > AgentTimeout
    /\ (dash.lastAgentReportTime # 0 /\ dash.alerts = <<>>)
           => ~dash.agentDownAlertSent

----------------------------------------------------------------------------
(* dashboard/health.ts                                                     *)
(* runHealthChecks starts the three checks; the feed check and the         *)
(* blockchain check await a read and complete later, in any order, also    *)
(* after the next round was started.                                       *)

MaxChecks == 4

FailureThreshold == 3
AgentReportTimeout == 60000
StaleAfter == 86400

\* seconds since the feed was updated, and the answer of the feed
FeedAges == {StaleAfter, StaleAfter + 1}

FeedAnswers == {0, 1}

HealthFrame ==
    UNCHANGED <<config, now, agentVars, call, walletLog, collector, mon,
                contractVars, dash, services>>

\* the try block of a check ran to its end
CheckSucceeded_KeepsCount(h, component, lastCheck) ==
    [h EXCEPT !.status[component] = [healthy |-> TRUE,
                                     lastCheck |-> lastCheck,
                                     error |-> FALSE]]

CheckSucceeded(h, component, lastCheck) ==
    [h EXCEPT !.status[component] = [healthy |-> TRUE,
                                     lastCheck |-> lastCheck,
                                     error |-> FALSE],
              !.failureCounts[component] = 0]

\* the catch block of a check
CheckFailed(h, component, lastCheck) ==
    [h EXCEPT !.failureCounts[component] = @ + 1,
              !.status[component] =
                  [healthy |-> h.failureCounts[component] + 1
                                   < FailureThreshold,
                   lastCheck |-> lastCheck,
                   error |-> TRUE]]

\* checkAgentHealth, which awaits nothing
checkAgentHealth(h, d) ==
    IF d.agentLastReport = 0
    THEN [h EXCEPT !.status.agent = [healthy |-> FALSE, lastCheck |-> d.now,
                                     error |-> TRUE]]
    ELSE IF d.now - d.agentLastReport > AgentReportTimeout
    THEN CheckFailed(h, "agent", d.now)
    ELSE CheckSucceeded(h, "agent", d.now)

Completed(h, component, success) ==
    [h EXCEPT !.inFlight[component] = @ - 1,
              !.results[component] = Append(@, success)]

\* checkApiHealth after readContract settled: read is FALSE when it threw
checkApiHealth(h, d, read, feedAge, answer) ==
    IF read /\ ~(feedAge > StaleAfter) /\ ~(answer <= 0)
    THEN CheckSucceeded(Completed(h, "api", TRUE), "api", d.now)
    ELSE CheckFailed(Completed(h, "api", FALSE), "api", d.now)

\* checkBlockchainHealth after getBlockNumber settled
checkBlockchainHealth(h, d, read) ==
    IF read
    THEN CheckSucceeded(Completed(h, "blockchain", TRUE), "blockchain", d.now)
    ELSE CheckFailed(Completed(h, "blockchain", FALSE), "blockchain", d.now)

RunHealthChecks ==
    /\ health.started < MaxChecks
    /\ health' = [checkAgentHealth(health, dash) EXCEPT
                     !.started = @ + 1,
                     !.inFlight = [api |-> @.api + 1,
                                   blockchain |-> @.blockchain + 1]]
    /\ HealthFrame

ApiCheckCompletes ==
    /\ health.inFlight.api > 0
    /\ \E read \in BOOLEAN, feedAge \in FeedAges, answer \in FeedAnswers :
           health' = checkApiHealth(health, dash, read, feedAge, answer)
    /\ HealthFrame

BlockchainCheckCompletes ==
    /\ health.inFlight.blockchain > 0
    /\ \E read \in BOOLEAN :
           health' = checkBlockchainHealth(health, dash, read)
    /\ HealthFrame

NextHealth ==
    RunHealthChecks \/ ApiCheckCompletes \/ BlockchainCheckCompletes

SpecHealth == InitServer /\ [][NextHealth]_vars

RECURSIVE TrailingFailures(_)
\* the number of failed checks at the end of a series of results
TrailingFailures(results) ==
    IF results = <<>> \/ results[Len(results)] THEN 0
    ELSE 1 + TrailingFailures(SubSeq(results, 1, Len(results) - 1))

\* C37: for the feed and the blockchain check the failure counter is the
\* number of consecutive failed checks since the last successful one, and
\* after a check the component is reported healthy iff that number is
\* below 3.
C37_FailureCounter ==
    \A component \in {"api", "blockchain"} :
        LET failures == TrailingFailures(health.results[component])
        IN /\ health.failureCounts[component] = failures
           /\ health.results[component] # <<>>
                  => (health.status[component].healthy
                          <=> failures < FailureThreshold)

\* after a successful feed check three checks in a row failed, and the feed
\* is reported unhealthy
C37_Witness ==
    /\ Len(health.results.api) = 4
    /\ health.results.api[1]
    /\ health.failureCounts.api = 3
    /\ ~health.status.api.healthy

----------------------------------------------------------------------------
(* dashboard/server.ts: service process management                         *)
(* A start-services handler runs up to its next await in one step. A       *)
(* child process runs until its exit is noticed (exitCode is set and the   *)
(* 'exit' listener runs), which can be long after it was killed.           *)

MaxStartRequests == 2

ServicesFrame ==
    UNCHANGED <<config, now, agentVars, call, walletLog, collector, mon,
                contractVars, dash, health>>

\* isServiceRunning: proc != null && proc.exitCode === null
isServiceRunning(sv, name) ==
    /\ sv.serviceProcs[name] # 0
    /\ sv.procs[sv.serviceProcs[name]].running

\* proc.kill('SIGTERM') and fuser -k: the process is told to end
Killed(procs, ids) ==
    [i \in DOMAIN procs |->
        IF i \in ids THEN [procs[i] EXCEPT !.killed = TRUE] ELSE procs[i]]

\* freePort(8545), freePort(3001): the running listeners of the two ports
freePorts(sv) ==
    [sv EXCEPT !.procs =
        Killed(@, {i \in DOMAIN sv.procs :
                       /\ sv.procs[i].running
                       /\ sv.procs[i].name \in {"hardhat", "mock-api"}})]

stopAllServices(sv) ==
    [sv EXCEPT !.procs = Killed(@, {sv.serviceProcs[name] :
                                        name \in ServiceNames} \ {0}),
               !.serviceProcs = [name \in ServiceNames |-> 0]]

\* spawn(...), serviceProcs.set(name, proc), proc.on('exit', ...)
spawn(sv, name, request) ==
    [sv EXCEPT !.procs = Append(@, [name |-> name, running |-> TRUE,
                                    killed |-> FALSE, request |-> request]),
               !.serviceProcs[name] = Len(sv.procs) + 1]

\* the handler from its first line to its first await
startServices(sv) ==
    IF sv.servicesStarting \/ isServiceRunning(sv, "hardhat")
    THEN [sv EXCEPT !.requests = Append(@, [pc |-> "done",
                                            response |-> 409])]
    ELSE [freePorts(sv) EXCEPT
             !.servicesStarting = TRUE,
             !.requests = Append(@, [pc |-> "sleep", response |-> 0])]

\* the catch and finally blocks
Failed(sv, request) ==
    [stopAllServices(sv) EXCEPT
        !.requests[request] = [pc |-> "done", response |-> 500],
        !.servicesStarting = FALSE]

\* the handler goes on after an await; ok is FALSE when the awaited
\* promise rejected
servicesStep(sv, request, ok) ==
    LET pc == sv.requests[request].pc
    IN IF pc = "sleep"
       THEN [spawn(sv, "hardhat", request) EXCEPT
                !.requests[request].pc = "waitHardhat"]
       ELSE IF ~ok THEN Failed(sv, request)
       ELSE IF pc = "waitHardhat"
       THEN [sv EXCEPT !.requests[request].pc = "deployContract"]
       ELSE IF pc = "deployContract"
       THEN [spawn(sv, "mock-api", request) EXCEPT
                !.requests[request].pc = "waitMockApi"]
       ELSE [spawn(sv, "agent", request) EXCEPT
                !.requests[request] = [pc |-> "done", response |-> 200],
                !.servicesStarting = FALSE]

\* POST /api/stop-services
stopServices(sv) == freePorts(stopAllServices(sv))

\* the exit of a child process is noticed: serviceProcs.delete(name)
processExit(sv, i) ==
    [sv EXCEPT !.procs[i].running = FALSE,
               !.serviceProcs[sv.procs[i].name] = 0]

StartServices ==
    /\ Len(services.requests) < MaxStartRequests
    /\ services' = startServices(services)
    /\ ServicesFrame

ServicesStep ==
    /\ \E request \in DOMAIN services.requests, ok \in BOOLEAN :
           /\ services.requests[request].pc # "done"
           /\ ok \/ services.requests[request].pc # "sleep"
           /\ services' = servicesStep(services, request, ok)
    /\ ServicesFrame

StopServices ==
    /\ services' = stopServices(services)
    /\ ServicesFrame

ProcessExits ==
    /\ \E i \in DOMAIN services.procs :
           /\ services.procs[i].running
           /\ services' = processExit(services, i)
    /\ ServicesFrame

NextServices ==
    StartServices \/ ServicesStep \/ StopServices \/ ProcessExits

SpecServices == InitServer /\ [][NextServices]_vars

InProgress(sv) ==
    {request \in DOMAIN sv.requests : sv.requests[request].pc # "done"}

HardhatAlive(sv) ==
    \E i \in DOMAIN sv.procs :
        sv.procs[i].name = "hardhat" /\ sv.procs[i].running

\* a start-services request arrives while a sequence is in progress or a
\* Hardhat node is alive: it is answered 409 and nothing is spawned
RejectedWhileBusy ==
    (/\ Len(services'.requests) = Len(services.requests) + 1
     /\ InProgress(services) # {} \/ HardhatAlive(services))
    => /\ services'.requests[Len(services'.requests)].response = 409
       /\ Len(services'.procs) = Len(services.procs)

OneSequence ==
    /\ Cardinality(InProgress(services)) <= 1
    /\ InProgress(services) = {} => ~services.servicesStarting

\* C39: at most one start-services sequence runs at a time, a request that
\* arrives while another is in progress or while a Hardhat node spawned by
\* the dashboard is alive is rejected with 409 and spawns nothing, and
\* servicesStarting is false after every sequence.
C39_OneStartSequence == []OneSequence /\ [][RejectedWhileBusy]_vars

====
